---- MODULE Spec2Model ----
(***************************************************************************)
(* Model of the parametric trigger-box analysis of mwinzi16/Mapping.       *)
(*                                                                         *)
(* The repository holds the analysis twice: a Flask application (src/app)  *)
(* and a FastAPI application (src/apps/api).  Definitions that model the   *)
(* Flask code are prefixed Flask_, those of the FastAPI code Api_; after   *)
(* the prefix they keep the names of the source.                           *)
(*                                                                         *)
(* Numbers: latitudes, longitudes, winds, pressures, magnitudes and depths *)
(* are integers.  A Python None of an Optional[int] field is the integer   *)
(* None (-1), which no real value of such a field takes.  The floats of a   *)
(* statistics result are integers in units of 10^-6.                       *)
(***************************************************************************)
EXTENDS Integers, Sequences, FiniteSets, TLC

VARIABLES
    pc,             \* position of the running call
    box,            \* the BoundingBox argument
    point,          \* a (latitude, longitude) pair handed to _point_in_box
    trigger,        \* the TriggerCriteria argument
    observed,       \* the observation handed to TriggerCriteria.matches
    earthquakes,    \* list of earthquake records
    intersections,  \* list of intersection records
    start_year,
    end_year,
    track,          \* hurricane.track
    hurricanes,     \* the historical hurricane dataset
    i,              \* loop index (of _check_track_intersection, of a bulk analysis)
    entry_point,    \* locals of _check_track_intersection
    exit_point,
    max_intensity,
    min_pressure,
    was_inside,
    boxes,          \* the list of boxes of a bulk analysis
    results,        \* what a bulk analysis has accumulated
    ret,            \* return value of the call
    cache,          \* TTLCache._cache: the (key, value, timestamp) entries in order
    max_size,       \* TTLCache._max_size
    ttl,            \* TTLCache._ttl
    now,            \* time.time()
    call,           \* the cache call made last, with its arguments
    used,           \* history: the keys in the order of their last use
    last_set,       \* history: per key the last set() that stored it since clear()
    threads,        \* per thread calling into the cache: its call and position in it
    subs,           \* the rows of the subscriptions table, in order of their ids
    service,        \* which application is running: "flask" or "api"
    tokens,         \* how many tokens secrets.token_urlsafe has produced
    today,          \* the current calendar day (UTC)
    mail,           \* history: the alert emails sent, each with its subscription id and day
    seen,           \* RealtimeService._seen_earthquakes and _seen_wildfires
    emitted,        \* history: the event ids reported as new in earlier polling cycles
    running,        \* RealtimeService._running
    task,           \* RealtimeService._task / _thread: the loop started last
    loops,          \* the monitoring loops created so far and where each one is
    manager,        \* the ConnectionManager of the WebSocket router
    endpoints,      \* per WebSocket: where its websocket_endpoint coroutine is
    broadcaster     \* the broadcast coroutine: its position and locals

vars == <<pc, box, point, trigger, observed, earthquakes, intersections,
          start_year, end_year, track, hurricanes, i, entry_point, exit_point,
          max_intensity, min_pressure, was_inside, boxes, results, ret,
          cache, max_size, ttl, now, call, used, last_set, threads,
          subs, service, tokens, today, mail, seen, emitted, running, task, loops,
          manager, endpoints, broadcaster>>

-----------------------------------------------------------------------------
(* Bounds of the model *)

\* coordinates (latitude and longitude) range over 0..MaxCoord
MaxCoord == 3

Coord == 0..MaxCoord

\* lists of events (earthquakes, intersections) have at most MaxEvents entries
MaxEvents == 3

\* the statistics are computed over lists of at most MaxStatEvents events of
\* two kinds and over year ranges of at most MaxSpan years
MaxStatEvents == 10

MaxSpan == 2

\* a bulk analysis is given at most MaxBoxes boxes
MaxBoxes == 2

\* a historical dataset has at most MaxDataset storms or earthquakes
MaxDataset == 2

\* a cache is built with max_size in 0..MaxCacheSize and ttl in 0..MaxTtl,
\* and the clock runs from 0 to MaxTime
MaxCacheSize == 2

\* MaxThreads threads call into one cache at the same time
MaxThreads == 2

\* secrets.token_urlsafe is called at most MaxTokens times, max_emails_per_day
\* is in 1..MaxEmailsPerDay, and the calendar runs over the days 0..MaxDay
MaxTokens == 4

MaxEmailsPerDay == 2

MaxDay == 1

\* the real-time monitor keeps the last 1000 earthquake ids and the last 500
\* wildfire ids and reads the first 50 fires of a feed; the model keeps the
\* last SeenEarthquakesCap and SeenWildfiresCap ids and reads the first
\* WildfireFeedLimit fires of feeds of at most MaxFeed events
SeenEarthquakesCap == 2

SeenWildfiresCap == 2

WildfireFeedLimit == 2

MaxFeed == 3

\* at most MaxLoops monitoring loops are created
MaxLoops == 3

\* the WebSocket clients that try to connect
MaxSockets == 6

\* at most MaxFailedSends sends of one broadcast raise
MaxFailedSends == 1

\* the small value of the setting MAX_WS_CONNECTIONS
MaxWsSetting == 2

MaxTtl == 2

MaxTime == 2

\* a hurricane track has at most MaxTrackLen points
MaxTrackLen == 3

\* Python None for an Optional number
None == -1

\* the sequences over S of length at most n
SeqUpTo(S, n) == UNION { [1..k -> S] : k \in 0..n }

-----------------------------------------------------------------------------
(* Data *)

\* TriggerCriteria of the hurricane analysis; is_none marks trigger=None
NoTrigger ==
    [is_none |-> TRUE, min_category |-> None, min_wind_knots |-> None,
     max_pressure_mb |-> None]

\* EarthquakeTriggerCriteria; is_none marks trigger=None
NoEqTrigger ==
    [is_none |-> TRUE, min_magnitude |-> None, max_depth_km |-> None,
     min_depth_km |-> None]

MkBox(id, s, n, w, e, t) ==
    [id |-> id, south |-> s, north |-> n, west |-> w, east |-> e, trigger |-> t]

\* every box over the grid, inverted and degenerate ones included
AllBoxes(t) ==
    { MkBox("b1", s, n, w, e, t) : s \in Coord, n \in Coord, w \in Coord, e \in Coord }

MkEq(la, lo, m, d, mo) ==
    [latitude |-> la, longitude |-> lo, magnitude |-> m, depth_km |-> d,
     month |-> mo]

\* HurricaneTrackPoint; month stands for timestamp.month
MkPoint(la, lo, w, p, c, mo) ==
    [latitude |-> la, longitude |-> lo, wind_knots |-> w, pressure_mb |-> p,
     category |-> c, month |-> mo]

\* the None of an Optional[HurricaneTrackPoint]
NoPoint == MkPoint(None, None, None, None, None, None)

\* BoxIntersection (Flask) and the intersection dict (FastAPI)
MkIx(storm, ep, xp, maxi, minp, cat) ==
    [storm_id |-> storm, entry_point |-> ep, exit_point |-> xp,
     max_intensity_in_box |-> maxi, min_pressure_in_box |-> minp,
     category_at_crossing |-> cat]

-----------------------------------------------------------------------------
(* Geometry *)

Flask_point_in_box_strict(la, lo, b) ==
    b.south <= la /\ la < b.north /\ b.west <= lo /\ lo <= b.east

\* ParametricService._point_in_box
Flask_point_in_box(la, lo, b) ==
    b.south <= la /\ la <= b.north /\ b.west <= lo /\ lo <= b.east

\* ParametricAnalysisService._point_in_box
Api_point_in_box(la, lo, b) ==
    (b.south <= la /\ la <= b.north) /\ (b.west <= lo /\ lo <= b.east)

\* EarthquakeParametricService.find_earthquakes_in_box (Flask)
Flask_find_earthquakes_in_box(eqs, b) ==
    LET In(eq) == b.south <= eq.latitude /\ eq.latitude <= b.north
                  /\ b.west <= eq.longitude /\ eq.longitude <= b.east
    IN  SelectSeq(eqs, In)

Api_find_earthquakes_in_box_lat_only(eqs, b) ==
    LET In(eq) == b.south <= eq.latitude /\ eq.latitude <= b.north
    IN  SelectSeq(eqs, In)

\* EarthquakeParametricService.find_earthquakes_in_box (FastAPI)
Api_find_earthquakes_in_box(eqs, b) ==
    LET In(eq) == b.south <= eq.latitude /\ eq.latitude <= b.north
                  /\ b.west <= eq.longitude /\ eq.longitude <= b.east
    IN  SelectSeq(eqs, In)

\* a variant of _segments_intersect that only asks whether (p1, p2) straddles
\* the line through p3 and p4
Flask_segments_intersect_line(p1_lat, p1_lon, p2_lat, p2_lon, p3_lat, p3_lon, p4_lat, p4_lon) ==
    LET cross(o_lat, o_lon, a_lat, a_lon, b_lat, b_lon) ==
            (a_lat - o_lat) * (b_lon - o_lon) - (a_lon - o_lon) * (b_lat - o_lat)
        d1 == cross(p3_lat, p3_lon, p4_lat, p4_lon, p1_lat, p1_lon)
        d2 == cross(p3_lat, p3_lon, p4_lat, p4_lon, p2_lat, p2_lon)
    IN  (d1 > 0 /\ d2 < 0) \/ (d1 < 0 /\ d2 > 0)

\* _segments_intersect of app/services/parametric_service.py: the strict
\* cross-product test of segment (p1, p2) against segment (p3, p4)
Flask_segments_intersect(p1_lat, p1_lon, p2_lat, p2_lon, p3_lat, p3_lon, p4_lat, p4_lon) ==
    LET cross(o_lat, o_lon, a_lat, a_lon, b_lat, b_lon) ==
            (a_lat - o_lat) * (b_lon - o_lon) - (a_lon - o_lon) * (b_lat - o_lat)
        d1 == cross(p3_lat, p3_lon, p4_lat, p4_lon, p1_lat, p1_lon)
        d2 == cross(p3_lat, p3_lon, p4_lat, p4_lon, p2_lat, p2_lon)
        d3 == cross(p1_lat, p1_lon, p2_lat, p2_lon, p3_lat, p3_lon)
        d4 == cross(p1_lat, p1_lon, p2_lat, p2_lon, p4_lat, p4_lon)
    IN  /\ ((d1 > 0 /\ d2 < 0) \/ (d1 < 0 /\ d2 > 0))
        /\ ((d3 > 0 /\ d4 < 0) \/ (d3 < 0 /\ d4 > 0))

\* ParametricService._segment_intersects_box
Flask_segment_intersects_box(lat1, lon1, lat2, lon2, b) ==
    LET edges == <<
            <<b.south, b.west, b.south, b.east>>,  \* bottom
            <<b.north, b.west, b.north, b.east>>,  \* top
            <<b.south, b.west, b.north, b.west>>,  \* left
            <<b.south, b.east, b.north, b.east>> >>  \* right
    IN  \E k \in DOMAIN edges :
            Flask_segments_intersect(lat1, lon1, lat2, lon2,
                edges[k][1], edges[k][2], edges[k][3], edges[k][4])

\* ParametricAnalysisService._segments_intersect (x is longitude, y latitude)
Api_segments_intersect(x1, y1, x2, y2, x3, y3, x4, y4) ==
    LET ccw(ax, ay, bx, by, cx, cy) ==
            (cy - ay) * (bx - ax) > (by - ay) * (cx - ax)
    IN  /\ ccw(x1, y1, x3, y3, x4, y4) # ccw(x2, y2, x3, y3, x4, y4)
        /\ ccw(x1, y1, x2, y2, x3, y3) # ccw(x1, y1, x2, y2, x4, y4)

\* ParametricAnalysisService._segment_intersects_box
Api_segment_intersects_box(lat1, lon1, lat2, lon2, b) ==
    LET edges == <<
            <<b.west, b.north, b.east, b.north>>,  \* top
            <<b.west, b.south, b.east, b.south>>,  \* bottom
            <<b.west, b.south, b.west, b.north>>,  \* left
            <<b.east, b.south, b.east, b.north>> >>  \* right
    IN  \E k \in DOMAIN edges :
            Api_segments_intersect(lon1, lat1, lon2, lat2,
                edges[k][1], edges[k][2], edges[k][3], edges[k][4])

\* wind_to_category of apps/api/app/utils/weather.py
wind_to_category(wind_knots) ==
    IF wind_knots >= 137 THEN 5
    ELSE IF wind_knots >= 113 THEN 4
    ELSE IF wind_knots >= 96 THEN 3
    ELSE IF wind_knots >= 83 THEN 2
    ELSE IF wind_knots >= 64 THEN 1
    ELSE 0

-----------------------------------------------------------------------------
(* Trigger evaluation *)

Api_TriggerCriteria_matches_lenient(t, category, wind_knots, pressure_mb) ==
    /\ (t.min_category = None \/ category >= t.min_category)
    /\ (t.min_wind_knots = None \/ wind_knots >= t.min_wind_knots)
    /\ (t.max_pressure_mb = None \/ pressure_mb = None
          \/ pressure_mb <= t.max_pressure_mb)

\* TriggerCriteria.matches (FastAPI schemas/parametric.py)
Api_TriggerCriteria_matches(t, category, wind_knots, pressure_mb) ==
    IF t.min_category # None /\ category < t.min_category THEN FALSE
    ELSE IF t.min_wind_knots # None /\ wind_knots < t.min_wind_knots THEN FALSE
    ELSE IF t.max_pressure_mb # None
            /\ (pressure_mb = None \/ pressure_mb > t.max_pressure_mb) THEN FALSE
    ELSE TRUE

Flask_EarthquakeTriggerCriteria_matches_no_floor(t, magnitude, depth_km) ==
    IF t.min_magnitude # None /\ magnitude < t.min_magnitude THEN FALSE
    ELSE IF t.max_depth_km # None /\ depth_km > t.max_depth_km THEN FALSE
    ELSE TRUE

\* EarthquakeTriggerCriteria.matches (Flask schemas/earthquake_parametric.py)
Flask_EarthquakeTriggerCriteria_matches(t, magnitude, depth_km) ==
    IF t.min_magnitude # None /\ magnitude < t.min_magnitude THEN FALSE
    ELSE IF t.max_depth_km # None /\ depth_km > t.max_depth_km THEN FALSE
    ELSE IF t.min_depth_km # None /\ depth_km < t.min_depth_km THEN FALSE
    ELSE TRUE

\* EarthquakeParametricService.filter_by_trigger_criteria (Flask)
Flask_eq_filter_by_trigger_criteria(eqs, t) ==
    IF t.is_none THEN eqs
    ELSE LET RECURSIVE Comprehension(_)
             Comprehension(k) ==
                 IF k > Len(eqs) THEN <<>>
                 ELSE IF Flask_EarthquakeTriggerCriteria_matches(
                             t, eqs[k].magnitude, eqs[k].depth_km)
                      THEN <<eqs[k]>> \o Comprehension(k + 1)
                      ELSE Comprehension(k + 1)
         IN  Comprehension(1)

-----------------------------------------------------------------------------
(* Floating-point arithmetic of the statistics, in fixed point               *)

\* Python round(a / b, n) for a already scaled by 10^n: the nearest integer
\* to a / b, ties to the even one (b # 0)
RoundDiv(a, b) ==
    LET n == IF b < 0 THEN -a ELSE a
        d == IF b < 0 THEN -b ELSE b
        q == n \div d
        r == n % d
    IN  IF 2 * r < d THEN q
        ELSE IF 2 * r > d THEN q + 1
        ELSE IF q % 2 = 0 THEN q ELSE q + 1

\* one, in the unit (10^-6) in which unrounded floats are held
Micro == 10^6

\* a * b for a, b in 0..Micro, both in units of 10^-6 (the product of the
\* halves keeps every intermediate value below 2^31)
MulMicro(a, b) ==
    (a * (b \div 1000)) \div 1000 + (a * (b % 1000)) \div Micro

\* math.exp(-f) for f in [0, 1), f and the result in units of 10^-6:
\* the Taylor series sum_k (-f)^k / k!, cut after the term k = 12
ExpNegFrac(f) ==
    LET RECURSIVE Series(_, _, _)
        Series(k, term, sum) ==
            IF k > 12 THEN sum
            ELSE LET next == MulMicro(term, f) \div k
                 IN  Series(k + 1, next,
                            IF k % 2 = 1 THEN sum - next ELSE sum + next)
    IN  Series(1, Micro, Micro)

\* math.exp(-n) for a natural number n, in units of 10^-6
RECURSIVE ExpNegInt(_)
ExpNegInt(n) == IF n = 0 THEN Micro ELSE MulMicro(ExpNegInt(n - 1), 367879)

\* math.exp(-(q / y)) for q >= 0, y > 0, in units of 10^-6
ExpNegMicro(q, y) ==
    MulMicro(ExpNegInt(q \div y), ExpNegFrac(((q % y) * Micro) \div y))

\* 1 - math.exp(-(q / y)) for q > 0, y > 0, in units of 10^-6
PoissonMicro(q, y) == Micro - ExpNegMicro(q, y)

\* round(x, n) of a float x held in units of 10^-6: a multiple of 10^(6-n)
RoundMicro(x, n) == RoundDiv(x, 10^(6 - n)) * 10^(6 - n)

\* a variant of the quotient that divides as "//" does
RoundQuot_floor_division(a, b, n) == (a \div b) * 10^6

\* round(a / b, n) in units of 10^-6 (b # 0)
RoundQuot(a, b, n) == RoundDiv(a * 10^n, b) * 10^(6 - n)

\* round(1 - math.exp(-(q / y)), 4) for q > 0, y # 0, in units of 10^-6.
\* For y < 0 the exponent is positive: the value is 1 - 1 / exp(-(q / -y)),
\* and a value below -2000 is held as -2000
RoundedPoisson(q, y) ==
    IF y > 0 THEN RoundMicro(PoissonMicro(q, y), 4)
    ELSE LET e == ExpNegMicro(q, -y)
         IN  IF e < 500 THEN -2000 * Micro
             ELSE (10^4 - ((10^9) \div e) * 10) * 100

RECURSIVE SumSeq(_)
SumSeq(s) == IF s = <<>> THEN 0 ELSE Head(s) + SumSeq(Tail(s))

MaxSeq(s) == CHOOSE x \in {s[j] : j \in DOMAIN s} : \A j \in DOMAIN s : s[j] <= x

MinSeq(s) == CHOOSE x \in {s[j] : j \in DOMAIN s} : \A j \in DOMAIN s : x <= s[j]

\* a counting loop that sets a bin to 1 instead of adding 1 to it
Histogram_overwriting(keys) ==
    [k \in {keys[j] : j \in DOMAIN keys} |-> 1]

\* the dict a counting loop builds from the list of its keys: key -> number
\* of entries with that key
Histogram(keys) ==
    [k \in {keys[j] : j \in DOMAIN keys} |->
        Cardinality({j \in DOMAIN keys : keys[j] = k})]

-----------------------------------------------------------------------------
(* Statistics.  Every float of a result is held in units of 10^-6.           *)

\* TriggerCriteria.matches of the Flask application (app/schemas/parametric.py)
Flask_TriggerCriteria_matches(t, category, wind_knots, pressure_mb) ==
    IF t.min_category # None /\ category < t.min_category THEN FALSE
    ELSE IF t.min_wind_knots # None /\ wind_knots < t.min_wind_knots THEN FALSE
    ELSE IF t.max_pressure_mb # None
            /\ (pressure_mb = None \/ pressure_mb > t.max_pressure_mb) THEN FALSE
    ELSE TRUE

\* a variant of filter_by_trigger_criteria for which nothing qualifies when
\* there is no trigger
Flask_filter_by_trigger_criteria_none_rejects(ixs, t) ==
    IF t.is_none THEN <<>>
    ELSE LET Keep(ix) ==
                 Flask_TriggerCriteria_matches(t, ix.category_at_crossing,
                     ix.entry_point.wind_knots, ix.entry_point.pressure_mb)
         IN  SelectSeq(ixs, Keep)

\* ParametricService.filter_by_trigger_criteria (Flask)
Flask_filter_by_trigger_criteria(ixs, t) ==
    IF t.is_none THEN ixs
    ELSE LET Keep(ix) ==
                 Flask_TriggerCriteria_matches(t, ix.category_at_crossing,
                     ix.entry_point.wind_knots, ix.entry_point.pressure_mb)
         IN  SelectSeq(ixs, Keep)

\* ParametricAnalysisService.filter_by_trigger_criteria (FastAPI)
Api_filter_by_trigger_criteria(ixs, t) ==
    IF t.is_none THEN ixs
    ELSE LET Keep(ix) ==
                 Api_TriggerCriteria_matches(t, ix.category_at_crossing,
                     ix.max_intensity_in_box, ix.min_pressure_in_box)
         IN  SelectSeq(ixs, Keep)

\* ParametricService.calculate_statistics (Flask)
Flask_calculate_statistics(ixs, b, sy, ey, t) ==
    LET years_analyzed == ey - sy + 1
        total == Len(ixs)
        qualifying == Flask_filter_by_trigger_criteria(ixs, t)
        qualifying_count == Len(qualifying)
        \* "x / years_analyzed if years_analyzed else 0.0"
        annual_freq == IF years_analyzed # 0
                       THEN RoundQuot(total, years_analyzed, 4) ELSE 0
        qualifying_freq == IF years_analyzed # 0
                           THEN RoundQuot(qualifying_count, years_analyzed, 4) ELSE 0
        Cat(ix) == ix.category_at_crossing
        Month(ix) == ix.entry_point.month
        wind_values == [j \in DOMAIN ixs |-> ixs[j].max_intensity_in_box]
        avg_wind == IF total > 0 THEN RoundQuot(SumSeq(wind_values), total, 1) ELSE 0
        max_wind == IF total > 0 THEN MaxSeq(wind_values) * Micro ELSE 0
        \* "1 - math.exp(-qualifying_freq) if qualifying_freq else 0.0"
        trigger_prob == IF years_analyzed # 0 /\ qualifying_count # 0
                        THEN RoundedPoisson(qualifying_count, years_analyzed) ELSE 0
    IN  [error |-> "none",
         box_id |-> b.id,
         total |-> total,
         qualifying |-> qualifying_count,
         years_analyzed |-> years_analyzed,
         annual_frequency |-> annual_freq,
         qualifying_annual_frequency |-> qualifying_freq,
         category_distribution |-> Histogram([j \in DOMAIN ixs |-> Cat(ixs[j])]),
         monthly_distribution |-> Histogram([j \in DOMAIN ixs |-> Month(ixs[j])]),
         average_intensity_knots |-> avg_wind,
         max_intensity_knots |-> max_wind,
         trigger_probability |-> trigger_prob,
         trigger_criteria |-> t]

\* ParametricAnalysisService.calculate_statistics (FastAPI); nothing is rounded
Api_calculate_statistics(ixs, b, sy, ey) ==
    LET years_analyzed == ey - sy + 1
        total_hurricanes == Len(ixs)
        qualifying == Api_filter_by_trigger_criteria(ixs, b.trigger)
        qualifying_hurricanes == Len(qualifying)
        Cat(ix) == ix.category_at_crossing
        \* an empty or unparseable timestamp (month None) is skipped
        Month(ix) == ix.entry_point.month
        HasMonth(ix) == ix.entry_point.month # None
        intensities == [j \in DOMAIN ixs |-> ixs[j].max_intensity_in_box]
        avg_intensity == IF total_hurricanes > 0
                         THEN RoundDiv(SumSeq(intensities) * Micro, total_hurricanes)
                         ELSE 0
        max_intensity_all == IF total_hurricanes > 0
                             THEN MaxSeq(intensities) * Micro ELSE 0
        annual_frequency == IF years_analyzed > 0
                            THEN RoundDiv(total_hurricanes * Micro, years_analyzed)
                            ELSE 0
        qualifying_annual_frequency ==
            IF years_analyzed > 0
            THEN RoundDiv(qualifying_hurricanes * Micro, years_analyzed) ELSE 0
        trigger_probability ==
            IF years_analyzed > 0 /\ qualifying_hurricanes > 0
            THEN PoissonMicro(qualifying_hurricanes, years_analyzed) ELSE 0
    IN  [error |-> "none",
         box_id |-> b.id,
         total |-> total_hurricanes,
         qualifying |-> qualifying_hurricanes,
         years_analyzed |-> years_analyzed,
         annual_frequency |-> annual_frequency,
         qualifying_annual_frequency |-> qualifying_annual_frequency,
         category_distribution |-> Histogram([j \in DOMAIN ixs |-> Cat(ixs[j])]),
         monthly_distribution |-> Histogram(LET kept == SelectSeq(ixs, HasMonth)
                       IN  [j \in DOMAIN kept |-> Month(kept[j])]),
         average_intensity_knots |-> avg_intensity,
         max_intensity_knots |-> max_intensity_all,
         trigger_probability |-> trigger_probability,
         trigger_criteria |-> b.trigger]

\* EarthquakeTriggerCriteria.matches of the FastAPI application
\* (apps/api/app/schemas/earthquake_parametric.py)
Api_EarthquakeTriggerCriteria_matches(t, magnitude, depth_km) ==
    IF t.min_magnitude # None /\ magnitude < t.min_magnitude THEN FALSE
    ELSE IF t.max_depth_km # None /\ depth_km > t.max_depth_km THEN FALSE
    ELSE IF t.min_depth_km # None /\ depth_km < t.min_depth_km THEN FALSE
    ELSE TRUE

\* EarthquakeParametricService.filter_by_trigger_criteria (FastAPI)
Api_eq_filter_by_trigger_criteria(eqs, t) ==
    LET Keep(eq) == Api_EarthquakeTriggerCriteria_matches(t, eq.magnitude, eq.depth_km)
    IN  SelectSeq(eqs, Keep)

\* the label f"{int(mag)}-{int(mag)+1}" of a magnitude bin
MagBin(eq) == <<eq.magnitude, eq.magnitude + 1>>

\* EarthquakeParametricService.calculate_box_statistics (Flask); eqs are the
\* earthquakes already filtered to the box
Flask_calculate_box_statistics(eqs, b, sy, ey, t) ==
    LET years_analyzed == ey - sy + 1
        total == Len(eqs)
        qualifying == Flask_eq_filter_by_trigger_criteria(eqs, t)
        qualifying_count == Len(qualifying)
        annual_freq == IF years_analyzed # 0
                       THEN RoundQuot(total, years_analyzed, 4) ELSE 0
        qual_freq == IF years_analyzed # 0
                     THEN RoundQuot(qualifying_count, years_analyzed, 4) ELSE 0
        DepthBin(eq) == IF eq.depth_km < 50 THEN "0-50"
                        ELSE IF eq.depth_km < 100 THEN "50-100"
                        ELSE IF eq.depth_km < 200 THEN "100-200"
                        ELSE "200+"
        Month(eq) == eq.month
        magnitudes == [j \in DOMAIN eqs |-> eqs[j].magnitude]
        depths == [j \in DOMAIN eqs |-> eqs[j].depth_km]
        avg_mag == IF total > 0 THEN RoundQuot(SumSeq(magnitudes), total, 2) ELSE 0
        max_mag == IF total > 0 THEN MaxSeq(magnitudes) * Micro ELSE 0
        avg_depth == IF total > 0 THEN RoundQuot(SumSeq(depths), total, 1) ELSE 0
        shallowest == IF total > 0 THEN MinSeq(depths) * Micro ELSE 0
        trigger_prob == IF years_analyzed # 0 /\ qualifying_count # 0
                        THEN RoundedPoisson(qualifying_count, years_analyzed) ELSE 0
    IN  [error |-> "none",
         box_id |-> b.id,
         total |-> total,
         qualifying |-> qualifying_count,
         years_analyzed |-> years_analyzed,
         annual_frequency |-> annual_freq,
         qualifying_annual_frequency |-> qual_freq,
         magnitude_distribution |-> Histogram([j \in DOMAIN eqs |-> MagBin(eqs[j])]),
         depth_distribution |-> Histogram([j \in DOMAIN eqs |-> DepthBin(eqs[j])]),
         monthly_distribution |-> Histogram([j \in DOMAIN eqs |-> Month(eqs[j])]),
         average_magnitude |-> avg_mag,
         max_magnitude |-> max_mag,
         average_depth_km |-> avg_depth,
         shallowest_depth_km |-> shallowest,
         trigger_probability |-> trigger_prob,
         trigger_criteria |-> t]

\* EarthquakeParametricService.calculate_box_statistics (FastAPI); all_eqs is
\* the whole dataset, the method filters it to the box itself
Api_calculate_box_statistics(all_eqs, b, sy, ey) ==
    LET box_earthquakes == Api_find_earthquakes_in_box(all_eqs, b)
        \* "if box.trigger:"
        qualifying == IF b.trigger.is_none THEN box_earthquakes
                      ELSE Api_eq_filter_by_trigger_criteria(box_earthquakes, b.trigger)
        years_analyzed == ey - sy + 1
        total_count == Len(box_earthquakes)
        qualifying_count == Len(qualifying)
        DepthBin(eq) == IF eq.depth_km < 10 THEN "0-10 km (Shallow)"
                        ELSE IF eq.depth_km < 70 THEN "10-70 km (Intermediate)"
                        ELSE IF eq.depth_km < 300 THEN "70-300 km (Deep)"
                        ELSE "300+ km (Very Deep)"
        \* an unparseable event_time (month None) is skipped
        Month(eq) == eq.month
        HasMonth(eq) == eq.month # None
        magnitudes == [j \in DOMAIN box_earthquakes |-> box_earthquakes[j].magnitude]
        depths == [j \in DOMAIN box_earthquakes |-> box_earthquakes[j].depth_km]
    IN  IF total_count = 0
        THEN [error |-> "none",
              box_id |-> b.id,
              total |-> 0,
              qualifying |-> 0,
              years_analyzed |-> years_analyzed,
              annual_frequency |-> 0,
              qualifying_annual_frequency |-> 0,
              magnitude_distribution |-> <<>>,
              depth_distribution |-> <<>>,
              monthly_distribution |-> [m \in 1..12 |-> 0],
              average_magnitude |-> 0,
              max_magnitude |-> 0,
              average_depth_km |-> 0,
              shallowest_depth_km |-> 0,
              trigger_probability |-> 0,
              trigger_criteria |-> b.trigger]
        ELSE IF years_analyzed = 0
        \* "annual_frequency = total_count / years_analyzed"
        THEN [error |-> "ZeroDivisionError"]
        ELSE [error |-> "none",
              box_id |-> b.id,
              total |-> total_count,
              qualifying |-> qualifying_count,
              years_analyzed |-> years_analyzed,
              annual_frequency |-> RoundQuot(total_count, years_analyzed, 3),
              qualifying_annual_frequency |->
                  RoundQuot(qualifying_count, years_analyzed, 3),
              magnitude_distribution |-> Histogram([j \in DOMAIN box_earthquakes |->
                      MagBin(box_earthquakes[j])]),
              depth_distribution |-> Histogram([j \in DOMAIN box_earthquakes |->
                      DepthBin(box_earthquakes[j])]),
              monthly_distribution |->
                  Histogram(LET kept == SelectSeq(box_earthquakes, HasMonth)
                            IN  [j \in DOMAIN kept |-> Month(kept[j])]),
              average_magnitude |-> RoundQuot(SumSeq(magnitudes), total_count, 2),
              max_magnitude |-> MaxSeq(magnitudes) * Micro,
              average_depth_km |-> RoundQuot(SumSeq(depths), total_count, 1),
              shallowest_depth_km |-> MinSeq(depths) * Micro,
              \* "if qualifying_annual_frequency > 0"
              trigger_probability |->
                  IF qualifying_count > 0 /\ years_analyzed > 0
                  THEN RoundMicro(PoissonMicro(qualifying_count, years_analyzed), 4)
                  ELSE 0,
              trigger_criteria |-> b.trigger]

-----------------------------------------------------------------------------
(* Shared pieces of the specifications *)

\* the subscriptions table and the services working on it
subsVars == <<subs, service, tokens, today, mail>>

\* the real-time monitor
monitorVars == <<seen, emitted, running, task, loops>>

\* the WebSocket connections
wsVars == <<manager, endpoints, broadcaster>>

\* the state outside the analysis and the cache
serviceVars == <<subsVars, monitorVars, wsVars>>

\* no subscription service is in use
NoSubs ==
    /\ subs = <<>>
    /\ service = "none"
    /\ tokens = 0
    /\ today = 0
    /\ mail = {}

\* no real-time monitor exists
NoMonitor ==
    /\ seen = <<>>
    /\ emitted = {}
    /\ running = FALSE
    /\ task = 0
    /\ loops = <<>>

\* no WebSocket router exists
NoWs ==
    /\ manager = <<>>
    /\ endpoints = <<>>
    /\ broadcaster = <<>>

NoServices == NoSubs /\ NoMonitor /\ NoWs

\* the state of the cache
cacheVars == <<cache, max_size, ttl, now, call, used, last_set, threads>>

\* what an analysis call leaves alone: its arguments and the cache
inputVars == <<box, point, trigger, observed, earthquakes, intersections,
               start_year, end_year, track, hurricanes, boxes, cacheVars,
               serviceVars>>

\* no cache is in use
NoCache ==
    /\ cache = <<>>
    /\ max_size = 0
    /\ ttl = 0
    /\ now = 0
    /\ call = <<>>
    /\ used = <<>>
    /\ last_set = {}
    /\ threads = <<>>

scanVars == <<i, entry_point, exit_point, max_intensity, min_pressure, was_inside>>

\* a call that has not started a track scan
ScanIdle ==
    /\ i = 0
    /\ entry_point = NoPoint
    /\ exit_point = NoPoint
    /\ max_intensity = 0
    /\ min_pressure = None
    /\ was_inside = FALSE

NoYears == start_year = 0 /\ end_year = 0

NoTrack == track = <<>> /\ hurricanes = <<>> /\ ScanIdle

NoBulk == boxes = <<>> /\ results = <<>>

Max(a, b) == IF a >= b THEN a ELSE b

Min(a, b) == IF a <= b THEN a ELSE b

\* a pure call: it reads its arguments and returns
Returns(op, value) ==
    /\ pc = "start"
    /\ pc' = op
    /\ ret' = value
    /\ UNCHANGED <<inputVars, scanVars, results>>

-----------------------------------------------------------------------------
(* SpecGeo: the point-in-box tests applied to every box and point of the grid *)

InitGeo ==
    /\ pc = "start"
    /\ box \in AllBoxes(NoTrigger)
    /\ point \in [latitude : Coord, longitude : Coord]
    /\ earthquakes = <<MkEq(point.latitude, point.longitude, 5, 10, 1)>>
    /\ trigger = NoTrigger
    /\ observed = None
    /\ intersections = <<>>
    /\ NoYears
    /\ NoTrack
    /\ NoBulk
    /\ ret = None
    /\ NoCache
    /\ NoServices

GeoFlaskPointInBox ==
    Returns("point_in_box", Flask_point_in_box(point.latitude, point.longitude, box))

GeoApiPointInBox ==
    Returns("point_in_box", Api_point_in_box(point.latitude, point.longitude, box))

GeoFlaskFindEarthquakes ==
    Returns("find_earthquakes_in_box", Flask_find_earthquakes_in_box(earthquakes, box))

GeoApiFindEarthquakes ==
    Returns("find_earthquakes_in_box", Api_find_earthquakes_in_box(earthquakes, box))

NextGeo ==
    \/ GeoFlaskPointInBox
    \/ GeoApiPointInBox
    \/ GeoFlaskFindEarthquakes
    \/ GeoApiFindEarthquakes

SpecGeo == InitGeo /\ [][NextGeo]_vars

\* the point lies between the bounds of the box, bounds included
WithinBounds ==
    /\ point.latitude \in box.south..box.north
    /\ point.longitude \in box.west..box.east

\* C1: the point-in-box test and the earthquake filter report a point as inside
\* exactly when south <= lat <= north and west <= lon <= east; a point on an
\* edge or a corner is inside.
C1_PointInBoxIffWithinBounds ==
    /\ pc = "point_in_box" => (ret <=> WithinBounds)
    /\ pc = "find_earthquakes_in_box" =>
          IF WithinBounds THEN ret = earthquakes ELSE ret = <<>>

\* a point on the north-east corner of a proper box was reported inside
C1_Witness ==
    /\ pc = "point_in_box"
    /\ ret = TRUE
    /\ box.south < box.north /\ box.west < box.east
    /\ point.latitude = box.north
    /\ point.longitude = box.east

-----------------------------------------------------------------------------
(* SpecTrigger: TriggerCriteria.matches applied to every criteria and       *)
(* observation of a small set                                              *)

Triggers ==
    [is_none : {FALSE}, min_category : {None, 0, 3}, min_wind_knots : {None, 64, 100},
     max_pressure_mb : {None, 950}]

Observations ==
    [category : {0, 2, 3, 4}, wind_knots : {50, 64, 100, 120},
     pressure_mb : {None, 940, 950, 960}]

InitTrigger ==
    /\ pc = "start"
    /\ trigger \in Triggers
    /\ observed \in Observations
    /\ box = MkBox("b1", 1, 2, 1, 2, trigger)
    /\ point = NoPoint
    /\ earthquakes = <<>>
    /\ intersections = <<>>
    /\ NoYears
    /\ NoTrack
    /\ NoBulk
    /\ ret = None
    /\ NoCache
    /\ NoServices

TriggerMatches ==
    Returns("matches",
            Api_TriggerCriteria_matches(trigger, observed.category,
                                        observed.wind_knots, observed.pressure_mb))

NextTrigger == TriggerMatches

SpecTrigger == InitTrigger /\ [][NextTrigger]_vars

\* C5: matches is true exactly when every configured threshold is met:
\* category >= min_category, wind_knots >= min_wind_knots, and the pressure is
\* known and <= max_pressure_mb; unset fields are not checked.
C5_MatchesIffThresholdsMet ==
    pc = "matches" =>
        (ret <=>
            /\ (trigger.min_category = None
                  \/ observed.category >= trigger.min_category)
            /\ (trigger.min_wind_knots = None
                  \/ observed.wind_knots >= trigger.min_wind_knots)
            /\ (trigger.max_pressure_mb = None
                  \/ (observed.pressure_mb # None
                        /\ observed.pressure_mb <= trigger.max_pressure_mb)))

\* a max_pressure_mb criterion, met in its other fields, rejected an
\* observation of unknown pressure
C5_Witness ==
    /\ pc = "matches"
    /\ ret = FALSE
    /\ trigger.max_pressure_mb # None
    /\ observed.pressure_mb = None
    /\ trigger.min_category # None /\ observed.category >= trigger.min_category
    /\ trigger.min_wind_knots # None /\ observed.wind_knots >= trigger.min_wind_knots

-----------------------------------------------------------------------------
(* SpecEqTrigger: the earthquake trigger filter applied to lists of events  *)

EqTriggers ==
    {NoEqTrigger} \cup
    [is_none : {FALSE}, min_magnitude : {None, 5}, max_depth_km : {None, 30},
     min_depth_km : {None, 10}]

\* earthquakes inside the box (1..2 x 1..2) of the trigger specifications
EqSamples == { MkEq(1, 1, m, d, 1) : m \in {4, 6}, d \in {5, 20, 60} }

InitEqTrigger ==
    /\ pc = "start"
    /\ trigger \in EqTriggers
    /\ earthquakes \in SeqUpTo(EqSamples, MaxEvents)
    /\ box = MkBox("b1", 1, 2, 1, 2, trigger)
    /\ point = NoPoint
    /\ observed = None
    /\ intersections = <<>>
    /\ NoYears
    /\ NoTrack
    /\ NoBulk
    /\ ret = None
    /\ NoCache
    /\ NoServices

EqFilterByTriggerCriteria ==
    Returns("filter_by_trigger_criteria",
            Flask_eq_filter_by_trigger_criteria(earthquakes, trigger))

NextEqTrigger == EqFilterByTriggerCriteria

SpecEqTrigger == InitEqTrigger /\ [][NextEqTrigger]_vars

\* the event meets every configured earthquake threshold
EqMeets(t, eq) ==
    /\ (t.min_magnitude = None \/ eq.magnitude >= t.min_magnitude)
    /\ (t.max_depth_km = None \/ eq.depth_km <= t.max_depth_km)
    /\ (t.min_depth_km = None \/ eq.depth_km >= t.min_depth_km)

\* C6: the earthquake filter returns every event when the trigger is None,
\* and otherwise exactly the events meeting every configured threshold, in
\* input order; a trigger with every field unset keeps every event.
C6_EqFilterKeepsExactlyMatching ==
    pc = "filter_by_trigger_criteria" =>
        LET Keeps(eq) == EqMeets(trigger, eq)
        IN  /\ trigger.is_none => ret = earthquakes
            /\ ~trigger.is_none => ret = SelectSeq(earthquakes, Keeps)
            /\ (trigger.min_magnitude = None /\ trigger.max_depth_km = None
                  /\ trigger.min_depth_km = None) => ret = earthquakes

\* a trigger with a depth floor dropped the first event and kept the later ones
C6_Witness ==
    /\ pc = "filter_by_trigger_criteria"
    /\ ~trigger.is_none
    /\ trigger.min_depth_km # None
    /\ Len(earthquakes) = 3
    /\ earthquakes[1].depth_km < trigger.min_depth_km
    /\ ret = Tail(earthquakes)

-----------------------------------------------------------------------------
(* SpecStats: the four statistics computations applied to lists of in-box   *)
(* events, triggers and year ranges (empty, zero and negative ones too)    *)

StatTriggers ==
    {NoTrigger,
     [is_none |-> FALSE, min_category |-> None, min_wind_knots |-> None,
      max_pressure_mb |-> None],
     [is_none |-> FALSE, min_category |-> 3, min_wind_knots |-> None,
      max_pressure_mb |-> None]}

StatEqTriggers ==
    {NoEqTrigger,
     [is_none |-> FALSE, min_magnitude |-> None, max_depth_km |-> None,
      min_depth_km |-> None],
     [is_none |-> FALSE, min_magnitude |-> 5, max_depth_km |-> None,
      min_depth_km |-> None]}

\* a major hurricane and a tropical storm crossing the box
StatIxSamples ==
    {MkIx("s1", MkPoint(1, 1, 100, 950, 3, 9), NoPoint, 100, 950, 3),
     MkIx("s2", MkPoint(2, 1, 50, None, 0, 8), NoPoint, 50, None, 0)}

\* a strong shallow and a weak deep earthquake at (1, 1)
StatEqSamples == {MkEq(1, 1, 6, 5, 1), MkEq(1, 1, 4, 60, 2)}

InitStats ==
    /\ pc = "start"
    /\ start_year = 2020
    /\ end_year \in 2018..(2019 + MaxSpan)
    /\ \/ /\ trigger \in StatTriggers
          /\ intersections \in SeqUpTo(StatIxSamples, MaxStatEvents)
          /\ earthquakes = <<>>
          /\ box = MkBox("b1", 1, 2, 1, 2, trigger)
       \/ /\ trigger \in StatEqTriggers
          /\ earthquakes \in SeqUpTo(StatEqSamples, MaxStatEvents)
          /\ intersections = <<>>
          /\ box \in {MkBox("b1", 1, 2, 1, 2, trigger), MkBox("b1", 1, 2, 2, 3, trigger)}
    /\ point = NoPoint
    /\ observed = None
    /\ NoTrack
    /\ NoBulk
    /\ ret = None
    /\ NoCache
    /\ NoServices

StatsFlaskHurricane ==
    /\ trigger \in StatTriggers
    /\ Returns("flask_calculate_statistics",
               Flask_calculate_statistics(intersections, box, start_year, end_year,
                                          trigger))

StatsApiHurricane ==
    /\ trigger \in StatTriggers
    /\ Returns("api_calculate_statistics",
               Api_calculate_statistics(intersections, box, start_year, end_year))

StatsFlaskEarthquake ==
    /\ trigger \in StatEqTriggers
    /\ Returns("flask_calculate_box_statistics",
               Flask_calculate_box_statistics(earthquakes, box, start_year, end_year,
                                              trigger))

StatsApiEarthquake ==
    /\ trigger \in StatEqTriggers
    /\ Returns("api_calculate_box_statistics",
               Api_calculate_box_statistics(earthquakes, box, start_year, end_year))

NextStats ==
    \/ StatsFlaskHurricane
    \/ StatsApiHurricane
    \/ StatsFlaskEarthquake
    \/ StatsApiEarthquake

SpecStats == InitStats /\ [][NextStats]_vars

HurricaneStatOps == {"flask_calculate_statistics", "api_calculate_statistics"}

EarthquakeStatOps == {"flask_calculate_box_statistics", "api_calculate_box_statistics"}

StatOps == HurricaneStatOps \cup EarthquakeStatOps

\* the events the finished statistics call had to count: the intersections,
\* the earthquakes handed over as in-box (Flask), or those of the dataset that
\* lie in the box (FastAPI)
InBoxCount ==
    IF pc \in HurricaneStatOps THEN Len(intersections)
    ELSE IF pc = "flask_calculate_box_statistics" THEN Len(earthquakes)
    ELSE Cardinality({j \in DOMAIN earthquakes :
            /\ earthquakes[j].latitude \in box.south..box.north
            /\ earthquakes[j].longitude \in box.west..box.east})

\* C2: with no in-box event the statistics call returns without raising and
\* reports total 0, qualifying 0, both frequencies 0.0, every average, max and
\* min field 0 and trigger_probability 0.0, whatever the box, trigger and years.
C2_EmptyStatisticsAreZero ==
    (pc \in StatOps /\ InBoxCount = 0) =>
        /\ ret.error = "none"
        /\ ret.total = 0
        /\ ret.qualifying = 0
        /\ ret.annual_frequency = 0
        /\ ret.qualifying_annual_frequency = 0
        /\ ret.trigger_probability = 0
        /\ pc \in HurricaneStatOps =>
              /\ ret.average_intensity_knots = 0
              /\ ret.max_intensity_knots = 0
        /\ pc \in EarthquakeStatOps =>
              /\ ret.average_magnitude = 0
              /\ ret.max_magnitude = 0
              /\ ret.average_depth_km = 0
              /\ ret.shallowest_depth_km = 0

\* the FastAPI earthquake statistics ran on a dataset none of whose events
\* lies in the box, over a zero-year range
C2_Witness ==
    /\ pc = "api_calculate_box_statistics"
    /\ earthquakes # <<>>
    /\ InBoxCount = 0
    /\ end_year - start_year + 1 = 0
    /\ ret.error = "none"
    /\ ret.total = 0

\* C3: for a year span end_year - start_year + 1 <= 0 no statistics call
\* raises, and annual_frequency and qualifying_annual_frequency are 0.0.
C3_NonPositiveSpanGivesZeroFrequency ==
    (pc \in StatOps /\ end_year - start_year + 1 <= 0) =>
        /\ ret.error = "none"
        /\ ret.annual_frequency = 0
        /\ ret.qualifying_annual_frequency = 0

\* what the finished statistics call returns for the list without its last
\* event (one event fewer in the box)
RetWithoutLastEvent ==
    LET ixs == SubSeq(intersections, 1, Len(intersections) - 1)
        eqs == SubSeq(earthquakes, 1, Len(earthquakes) - 1)
    IN  CASE pc = "flask_calculate_statistics" ->
                 Flask_calculate_statistics(ixs, box, start_year, end_year, trigger)
          [] pc = "api_calculate_statistics" ->
                 Api_calculate_statistics(ixs, box, start_year, end_year)
          [] pc = "flask_calculate_box_statistics" ->
                 Flask_calculate_box_statistics(eqs, box, start_year, end_year, trigger)
          [] pc = "api_calculate_box_statistics" ->
                 Api_calculate_box_statistics(eqs, box, start_year, end_year)

\* C4: the reported trigger_probability lies in [0, 1), also after rounding,
\* and does not decrease when qualifying_annual_frequency increases.
C4_TriggerProbabilityInUnitInterval ==
    (pc \in StatOps /\ ret.error = "none") =>
        /\ 0 <= ret.trigger_probability
        /\ ret.trigger_probability < Micro
        /\ (Len(intersections) + Len(earthquakes) > 0
              /\ RetWithoutLastEvent.error = "none"
              /\ RetWithoutLastEvent.qualifying_annual_frequency
                    <= ret.qualifying_annual_frequency)
             => RetWithoutLastEvent.trigger_probability <= ret.trigger_probability

-----------------------------------------------------------------------------
(* The track scan of one storm.  A scan state holds the locals of           *)
(* _check_track_intersection; i counts the loop iterations done, so the next *)
(* point is t[i + 1] (Python track[i]) and t[i] is the point before it.     *)

\* the locals of _check_track_intersection before its loop
ScanStart ==
    [i |-> 0, entry_point |-> NoPoint, exit_point |-> NoPoint, max_intensity |-> 0,
     min_pressure |-> None, was_inside |-> FALSE, broke |-> FALSE]

\* one iteration of "for i, pt in enumerate(hurricane.track)" (Flask)
Flask_loop_body(st, t, b) ==
    LET pt == t[st.i + 1]
        inside == Flask_point_in_box(pt.latitude, pt.longitude, b)
        entered == inside /\ st.entry_point = NoPoint
        left == ~inside /\ st.entry_point # NoPoint
        entry1 == IF entered THEN pt ELSE st.entry_point
    IN  IF left
        THEN \* exit_point = hurricane.track[i - 1] if i > 0 else None; break
             [st EXCEPT !.exit_point = IF st.i > 0 THEN t[st.i] ELSE NoPoint,
                        !.broke = TRUE]
        ELSE [st EXCEPT
                !.max_intensity = IF inside /\ ~entered
                                  THEN Max(st.max_intensity, pt.wind_knots)
                                  ELSE st.max_intensity,
                \* the segment check made while no entry point is known
                !.entry_point = IF /\ entry1 = NoPoint
                                   /\ st.i > 0
                                   /\ Flask_segment_intersects_box(
                                          t[st.i].latitude, t[st.i].longitude,
                                          pt.latitude, pt.longitude, b)
                                THEN pt ELSE entry1,
                !.i = st.i + 1]

\* after the loop: None (no record) or the BoxIntersection (Flask)
Flask_BoxIntersection(st, storm_id) ==
    IF st.entry_point = NoPoint THEN <<>>
    ELSE <<MkIx(storm_id, st.entry_point, st.exit_point,
                Max(st.max_intensity, st.entry_point.wind_knots),
                None, st.entry_point.category)>>

\* a variant of the scan that reports one record for every in-box point
Flask_check_track_intersection_per_point(t, b, storm_id) ==
    LET RECURSIVE PerPoint(_)
        PerPoint(k) ==
            IF k > Len(t) THEN <<>>
            ELSE (IF Flask_point_in_box(t[k].latitude, t[k].longitude, b)
                  THEN <<MkIx(storm_id, t[k], NoPoint, t[k].wind_knots, None,
                              t[k].category)>>
                  ELSE <<>>) \o PerPoint(k + 1)
    IN  PerPoint(1)

\* ParametricService._check_track_intersection (Flask), as a list of 0 or 1 record
Flask_check_track_intersection(t, b, storm_id) ==
    LET RECURSIVE Loop(_)
        Loop(st) == IF st.broke \/ st.i = Len(t) THEN st
                    ELSE Loop(Flask_loop_body(st, t, b))
    IN  Flask_BoxIntersection(Loop(ScanStart), storm_id)

\* ParametricService.find_box_intersections (Flask)
Flask_find_box_intersections(hs, b) ==
    LET RECURSIVE Collect(_)
        Collect(j) ==
            IF j > Len(hs) THEN <<>>
            ELSE Flask_check_track_intersection(hs[j].track, b, hs[j].storm_id)
                     \o Collect(j + 1)
    IN  Collect(1)

\* one iteration of "for i, point in enumerate(track)" (FastAPI)
Api_points_body(st, t, b) ==
    LET pt == t[st.i + 1]
        is_inside == Api_point_in_box(pt.latitude, pt.longitude, b)
    IN  IF is_inside
        THEN [st EXCEPT
                !.max_intensity = IF pt.wind_knots > st.max_intensity
                                  THEN pt.wind_knots ELSE st.max_intensity,
                !.min_pressure =
                    IF pt.pressure_mb # None
                       /\ (st.min_pressure = None \/ pt.pressure_mb < st.min_pressure)
                    THEN pt.pressure_mb ELSE st.min_pressure,
                !.entry_point = IF ~st.was_inside THEN pt ELSE st.entry_point,
                !.was_inside = TRUE,
                !.i = st.i + 1]
        ELSE [st EXCEPT
                !.exit_point = IF st.was_inside THEN pt ELSE st.exit_point,
                !.was_inside = FALSE,
                !.i = st.i + 1]

\* "if entry_point: return (entry_point, exit_point, ...)" with the record
\* find_box_intersections builds from the tuple (FastAPI)
Api_points_record(st, storm_id) ==
    MkIx(storm_id, st.entry_point, st.exit_point, st.max_intensity,
         st.min_pressure, wind_to_category(st.max_intensity))

\* the test made by iteration k - 1 of "for i in range(len(track) - 1)" (FastAPI)
Api_segment_crosses(t, k, b) ==
    Api_segment_intersects_box(t[k].latitude, t[k].longitude,
                               t[k + 1].latitude, t[k + 1].longitude, b)

\* "return (p1, p2, max_wind, seg_min_pressure)" with the record
\* find_box_intersections builds from the tuple (FastAPI)
Api_segment_record(t, k, storm_id) ==
    LET p1 == t[k]
        p2 == t[k + 1]
        max_wind == Max(p1.wind_knots, p2.wind_knots)
        seg_min_pressure ==
            IF p1.pressure_mb # None /\ p2.pressure_mb # None
            THEN Min(p1.pressure_mb, p2.pressure_mb)
            ELSE IF p1.pressure_mb # None THEN p1.pressure_mb
            ELSE IF p2.pressure_mb # None THEN p2.pressure_mb
            ELSE None
    IN  MkIx(storm_id, p1, p2, max_wind, seg_min_pressure, wind_to_category(max_wind))

\* ParametricAnalysisService._check_track_intersection with the record of
\* find_box_intersections (FastAPI), as a list of 0 or 1 record
Api_check_track_intersection(t, b, storm_id) ==
    LET RECURSIVE Points(_)
        Points(st) == IF st.i = Len(t) THEN st ELSE Points(Api_points_body(st, t, b))
        RECURSIVE Segments(_)
        Segments(k) == IF k > Len(t) - 1 THEN <<>>
                       ELSE IF Api_segment_crosses(t, k, b)
                            THEN <<Api_segment_record(t, k, storm_id)>>
                            ELSE Segments(k + 1)
        st == Points(ScanStart)
    IN  IF st.entry_point # NoPoint THEN <<Api_points_record(st, storm_id)>>
        ELSE Segments(1)

\* ParametricAnalysisService.find_box_intersections (FastAPI)
Api_find_box_intersections(hs, b) ==
    LET RECURSIVE Collect(_)
        Collect(j) ==
            IF j > Len(hs) THEN <<>>
            ELSE Api_check_track_intersection(hs[j].track, b, hs[j].storm_id)
                     \o Collect(j + 1)
    IN  Collect(1)

-----------------------------------------------------------------------------
(* The scan of the storm "s1" made step by step: the variables i,           *)
(* entry_point, ... are the locals, and ret is what find_box_intersections  *)
(* returns for the list holding this one storm.                            *)

Locals ==
    [i |-> i, entry_point |-> entry_point, exit_point |-> exit_point,
     max_intensity |-> max_intensity, min_pressure |-> min_pressure,
     was_inside |-> was_inside, broke |-> FALSE]

SetLocals(st) ==
    /\ i' = st.i
    /\ entry_point' = st.entry_point
    /\ exit_point' = st.exit_point
    /\ max_intensity' = st.max_intensity
    /\ min_pressure' = st.min_pressure
    /\ was_inside' = st.was_inside

\* ParametricService._check_track_intersection is entered (Flask)
FlaskCheckTrack ==
    /\ pc = "start"
    /\ pc' = "flask_loop"
    /\ UNCHANGED <<inputVars, scanVars, results, ret>>

\* one iteration of the loop; a break leaves the loop (Flask)
FlaskLoopBody ==
    /\ pc = "flask_loop"
    /\ i < Len(track)
    /\ LET st == Flask_loop_body(Locals, track, box)
       IN  /\ SetLocals(st)
           /\ pc' = IF st.broke THEN "flask_break" ELSE "flask_loop"
    /\ UNCHANGED <<inputVars, results, ret>>

\* after the loop (ended or broken): the BoxIntersection, or None (Flask)
FlaskReturn ==
    /\ \/ pc = "flask_loop" /\ i = Len(track)
       \/ pc = "flask_break"
    /\ pc' = "flask_done"
    /\ ret' = Flask_BoxIntersection(Locals, "s1")
    /\ UNCHANGED <<inputVars, scanVars, results>>

\* ParametricAnalysisService._check_track_intersection is entered (FastAPI)
ApiCheckTrack ==
    /\ pc = "start"
    /\ pc' = "api_points"
    /\ UNCHANGED <<inputVars, scanVars, results, ret>>

\* one iteration of "for i, point in enumerate(track)" (FastAPI)
ApiPointsBody ==
    /\ pc = "api_points"
    /\ i < Len(track)
    /\ SetLocals(Api_points_body(Locals, track, box))
    /\ pc' = "api_points"
    /\ UNCHANGED <<inputVars, results, ret>>

\* the points loop has ended: "if entry_point: return (...)", else the
\* segment loop starts (FastAPI)
ApiPointsExit ==
    /\ pc = "api_points"
    /\ i = Len(track)
    /\ IF entry_point # NoPoint
       THEN /\ pc' = "api_done"
            /\ ret' = <<Api_points_record(Locals, "s1")>>
            /\ UNCHANGED i
       ELSE /\ pc' = "api_segments"
            /\ i' = 0
            /\ UNCHANGED ret
    /\ UNCHANGED <<inputVars, entry_point, exit_point, max_intensity, min_pressure,
                   was_inside, results>>

\* one iteration of "for i in range(len(track) - 1)" (FastAPI)
ApiSegmentsBody ==
    /\ pc = "api_segments"
    /\ i < Len(track) - 1
    /\ IF Api_segment_crosses(track, i + 1, box)
       THEN /\ pc' = "api_done"
            /\ ret' = <<Api_segment_record(track, i + 1, "s1")>>
            /\ UNCHANGED i
       ELSE /\ pc' = "api_segments"
            /\ i' = i + 1
            /\ UNCHANGED ret
    /\ UNCHANGED <<inputVars, entry_point, exit_point, max_intensity, min_pressure,
                   was_inside, results>>

\* the segment loop has ended without a crossing: return None (FastAPI)
ApiSegmentsExit ==
    /\ pc = "api_segments"
    /\ i >= Len(track) - 1
    /\ pc' = "api_done"
    /\ ret' = <<>>
    /\ UNCHANGED <<inputVars, scanVars, results>>

\* find_earthquakes_in_box (Flask) for the earthquakes at the track's points
TrackFindEarthquakes ==
    Returns("find_earthquakes_in_box", Flask_find_earthquakes_in_box(earthquakes, box))

NextTrack ==
    \/ FlaskCheckTrack
    \/ FlaskLoopBody
    \/ FlaskReturn
    \/ ApiCheckTrack
    \/ ApiPointsBody
    \/ ApiPointsExit
    \/ ApiSegmentsBody
    \/ ApiSegmentsExit
    \/ TrackFindEarthquakes

\* wind and pressure of the track points: a tropical storm of unknown
\* pressure and a major hurricane
Profiles == {[w |-> 50, p |-> None], [w |-> 100, p |-> 950]}

\* the track points over the grid; the category is the one of the wind
TrackPoints(profiles) ==
    { MkPoint(la, lo, pr.w, pr.p, wind_to_category(pr.w), 9) :
        la \in Coord, lo \in Coord, pr \in profiles }

InitScan(bxs, tracks) ==
    /\ pc = "start"
    /\ box \in bxs
    /\ track \in tracks
    /\ hurricanes = <<[storm_id |-> "s1", track |-> track]>>
    /\ earthquakes =
          [j \in DOMAIN track |-> MkEq(track[j].latitude, track[j].longitude, 5, 10, 1)]
    /\ trigger = NoTrigger
    /\ point = NoPoint
    /\ observed = None
    /\ intersections = <<>>
    /\ NoYears
    /\ ScanIdle
    /\ NoBulk
    /\ ret = None
    /\ NoCache
    /\ NoServices

-----------------------------------------------------------------------------
(* SpecTrack: every track of at most MaxTrackLen points over the grid,       *)
(* scanned against the box 1..2 x 1..2                                     *)

InitTrack ==
    InitScan({MkBox("b1", 1, 2, 1, 2, NoTrigger)},
             SeqUpTo(TrackPoints(Profiles), MaxTrackLen))

SpecTrack == InitTrack /\ [][NextTrack]_vars

-----------------------------------------------------------------------------
(* SpecInverted: tracks of one segment scanned against inverted boxes        *)

InvertedBoxes ==
    { MkBox("b1", s, n, w, e, NoTrigger) :
        s \in Coord, n \in Coord, w \in {1, 2}, e \in {1, 2} } 

InitInverted ==
    /\ InitScan({b \in InvertedBoxes : b.south > b.north},
                SeqUpTo(TrackPoints({[w |-> 100, p |-> 950]}), 2))

SpecInverted == InitInverted /\ [][NextTrack]_vars

ScanDone == pc \in {"flask_done", "api_done"}

\* C8: for an inverted box (south > north) no earthquake is reported inside
\* and no hurricane track produces an intersection record.
C8_InvertedBoxMatchesNothing ==
    box.south > box.north =>
        /\ ScanDone => ret = <<>>
        /\ pc = "find_earthquakes_in_box" => ret = <<>>

\* the track points that lie within the box's bounds (1-based positions)
InsidePositions ==
    { j \in DOMAIN track :
        /\ track[j].latitude \in box.south..box.north
        /\ track[j].longitude \in box.west..box.east }

FirstInside == CHOOSE j \in InsidePositions : \A k \in InsidePositions : j <= k

\* C9: when at least one track point lies inside the box, the scan yields
\* exactly one record for the storm and its entry_point is the first track
\* point, in track order, that lies inside the box; a segment crossing the
\* box before that point does not decide the entry.
C9_EntryPointIsFirstInBoxPoint ==
    (ScanDone /\ InsidePositions # {}) =>
        /\ Len(ret) = 1
        /\ ret[1].entry_point = track[FirstInside]

\* C10: once the track has gone from inside the box to outside, the scan
\* changes nothing of the excursion it reports: entry_point, exit_point,
\* max_intensity_in_box and min_pressure_in_box stay as they were at the
\* first exit, whatever points follow.
C10_OnlyFirstExcursionReported ==
    [][exit_point # NoPoint =>
         UNCHANGED <<entry_point, exit_point, max_intensity, min_pressure>>]_vars

-----------------------------------------------------------------------------
(* Single-box and bulk analysis.  The dataset a FastAPI method fetches with  *)
(* get_historical_hurricanes / get_historical_earthquakes is the variable   *)
(* hurricanes / earthquakes: the same for the single and the bulk call.     *)

\* ParametricService.analyze_box (Flask)
Flask_analyze_box(b, hs, sy, ey) ==
    Flask_calculate_statistics(Flask_find_box_intersections(hs, b), b, sy, ey, b.trigger)

\* ParametricService.analyze_multiple_boxes (Flask): one analyze_box per box
Flask_analyze_multiple_boxes(bs, hs, sy, ey) ==
    [j \in DOMAIN bs |-> Flask_analyze_box(bs[j], hs, sy, ey)]

\* EarthquakeParametricService.calculate_statistics (Flask)
Flask_eq_calculate_statistics(b, all_eqs, sy, ey) ==
    Flask_calculate_box_statistics(Flask_find_earthquakes_in_box(all_eqs, b), b, sy, ey,
                                   b.trigger)

\* EarthquakeParametricService.calculate_all_statistics (Flask)
Flask_calculate_all_statistics(bs, all_eqs, sy, ey) ==
    [j \in DOMAIN bs |-> Flask_eq_calculate_statistics(bs[j], all_eqs, sy, ey)]

\* ParametricAnalysisService.analyze_box (FastAPI)
Api_analyze_box(b, hs, sy, ey) ==
    Api_calculate_statistics(Api_find_box_intersections(hs, b), b, sy, ey)

\* EarthquakeParametricService.calculate_statistics (FastAPI)
Api_eq_calculate_statistics(b, all_eqs, sy, ey) ==
    Api_calculate_box_statistics(all_eqs, b, sy, ey)

\* "results[box.id] = stats" on a dict
DictPut(d, key, value) ==
    [k \in DOMAIN d \cup {key} |-> IF k = key THEN value ELSE d[k]]

\* the boxes carry hurricane triggers / earthquake triggers
HurricaneBoxes == \A j \in DOMAIN boxes : boxes[j].trigger \in StatTriggers

EarthquakeBoxes == \A j \in DOMAIN boxes : boxes[j].trigger \in StatEqTriggers

\* a variant of the bulk analysis that reverses the list of boxes in place
BulkFlaskAnalyzeMultipleBoxes_reversing_boxes ==
    /\ HurricaneBoxes
    /\ pc = "start"
    /\ pc' = "flask_analyze_multiple_boxes"
    /\ boxes' = [j \in DOMAIN boxes |-> boxes[Len(boxes) + 1 - j]]
    /\ ret' = Flask_analyze_multiple_boxes(boxes', hurricanes, start_year, end_year)
    /\ UNCHANGED <<box, point, trigger, observed, earthquakes, intersections,
                   start_year, end_year, track, hurricanes, cacheVars, scanVars,
                   results, serviceVars>>

BulkFlaskAnalyzeMultipleBoxes ==
    /\ HurricaneBoxes
    /\ Returns("flask_analyze_multiple_boxes",
               Flask_analyze_multiple_boxes(boxes, hurricanes, start_year, end_year))

BulkFlaskCalculateAllStatistics ==
    /\ EarthquakeBoxes
    /\ Returns("flask_calculate_all_statistics",
               Flask_calculate_all_statistics(boxes, earthquakes, start_year, end_year))

\* ParametricAnalysisService.analyze_multiple_boxes is entered: "results = {}"
BulkApiAnalyzeMultipleBoxes ==
    /\ pc = "start"
    /\ HurricaneBoxes
    /\ pc' = "api_hurricane_loop"
    /\ results' = <<>>
    /\ i' = 0
    /\ UNCHANGED <<inputVars, entry_point, exit_point, max_intensity, min_pressure,
                   was_inside, ret>>

\* one iteration of "for box in boxes" of analyze_multiple_boxes (FastAPI)
BulkApiHurricaneLoopBody ==
    /\ pc = "api_hurricane_loop"
    /\ i < Len(boxes)
    /\ LET b == boxes[i + 1]
           ixs == Api_find_box_intersections(hurricanes, b)
           stats == Api_calculate_statistics(ixs, b, start_year, end_year)
       IN  results' = DictPut(results, b.id, stats)
    /\ i' = i + 1
    /\ UNCHANGED <<pc, inputVars, entry_point, exit_point, max_intensity, min_pressure,
                   was_inside, ret>>

\* "return results" of analyze_multiple_boxes (FastAPI)
BulkApiHurricaneReturn ==
    /\ pc = "api_hurricane_loop"
    /\ i = Len(boxes)
    /\ pc' = "api_analyze_multiple_boxes"
    /\ ret' = results
    /\ UNCHANGED <<inputVars, scanVars, results>>

\* EarthquakeParametricService.calculate_all_statistics is entered (FastAPI)
BulkApiCalculateAllStatistics ==
    /\ pc = "start"
    /\ EarthquakeBoxes
    /\ pc' = "api_earthquake_loop"
    /\ results' = <<>>
    /\ i' = 0
    /\ UNCHANGED <<inputVars, entry_point, exit_point, max_intensity, min_pressure,
                   was_inside, ret>>

\* one iteration of "for box in boxes" of calculate_all_statistics (FastAPI);
\* an exception of calculate_box_statistics ends the whole call
BulkApiEarthquakeLoopBody ==
    /\ pc = "api_earthquake_loop"
    /\ i < Len(boxes)
    /\ LET b == boxes[i + 1]
           stats == Api_calculate_box_statistics(earthquakes, b, start_year, end_year)
       IN  IF stats.error # "none"
           THEN /\ pc' = "api_calculate_all_statistics"
                /\ ret' = stats
                /\ UNCHANGED <<results, i>>
           ELSE /\ results' = DictPut(results, b.id, stats)
                /\ i' = i + 1
                /\ UNCHANGED <<pc, ret>>
    /\ UNCHANGED <<inputVars, entry_point, exit_point, max_intensity, min_pressure,
                   was_inside>>

\* "return results" of calculate_all_statistics (FastAPI)
BulkApiEarthquakeReturn ==
    /\ pc = "api_earthquake_loop"
    /\ i = Len(boxes)
    /\ pc' = "api_calculate_all_statistics"
    /\ ret' = results
    /\ UNCHANGED <<inputVars, scanVars, results>>

NextBulk ==
    \/ BulkFlaskAnalyzeMultipleBoxes
    \/ BulkFlaskCalculateAllStatistics
    \/ BulkApiAnalyzeMultipleBoxes
    \/ BulkApiHurricaneLoopBody
    \/ BulkApiHurricaneReturn
    \/ BulkApiCalculateAllStatistics
    \/ BulkApiEarthquakeLoopBody
    \/ BulkApiEarthquakeReturn

-----------------------------------------------------------------------------
(* SpecBulk: lists of at most MaxBoxes boxes with distinct ids, analysed     *)
(* against datasets of at most MaxDataset storms or earthquakes            *)

\* a box around (1, 1)..(2, 2), the empty corner (0, 0) and a wide box
\* with a trigger
BulkBoxes(none, strict) ==
    {MkBox("a", 1, 2, 1, 2, none), MkBox("b", 0, 0, 0, 0, none),
     MkBox("c", 1, 3, 1, 3, strict)}

DistinctIds(bs) == \A j, k \in DOMAIN bs : bs[j].id = bs[k].id => j = k

\* a major hurricane through the box "a", a tropical storm whose segment
\* crosses it, and a storm that stays at the corner
BulkStorms ==
    {[storm_id |-> "s1",
      track |-> <<MkPoint(0, 1, 50, None, 0, 8), MkPoint(1, 1, 100, 950, 3, 9),
                  MkPoint(3, 3, 50, None, 0, 9)>>],
     [storm_id |-> "s2",
      track |-> <<MkPoint(1, 0, 50, None, 0, 10), MkPoint(2, 3, 50, None, 0, 10)>>],
     [storm_id |-> "s3", track |-> <<MkPoint(0, 0, 100, 950, 3, 7)>>]}

BulkEarthquakes == {MkEq(1, 1, 6, 5, 1), MkEq(3, 3, 4, 60, 2), MkEq(0, 3, 5, 10, 3)}

InitBulk ==
    /\ pc = "start"
    /\ start_year = 2020
    /\ end_year \in 2019..(2019 + MaxSpan)
    /\ \/ /\ boxes \in { bs \in SeqUpTo(BulkBoxes(NoTrigger,
                              [is_none |-> FALSE, min_category |-> 3,
                               min_wind_knots |-> None, max_pressure_mb |-> None]),
                            MaxBoxes) : DistinctIds(bs) }
          /\ hurricanes \in SeqUpTo(BulkStorms, MaxDataset)
          /\ earthquakes = <<>>
       \/ /\ boxes \in { bs \in SeqUpTo(BulkBoxes(NoEqTrigger,
                              [is_none |-> FALSE, min_magnitude |-> 5,
                               max_depth_km |-> None, min_depth_km |-> None]),
                            MaxBoxes) : DistinctIds(bs) }
          /\ earthquakes \in SeqUpTo(BulkEarthquakes, MaxDataset)
          /\ hurricanes = <<>>
    /\ box = MkBox("b1", 0, 0, 0, 0, NoTrigger)
    /\ trigger = NoTrigger
    /\ point = NoPoint
    /\ observed = None
    /\ intersections = <<>>
    /\ track = <<>>
    /\ ScanIdle
    /\ results = <<>>
    /\ ret = None
    /\ NoCache
    /\ NoServices

SpecBulk == InitBulk /\ [][NextBulk]_vars

\* what a finished bulk call holds for the box at position j: the entry of
\* the list (Flask), the entry of the dict under the box's id (FastAPI), or
\* the exception that ended the call
BulkResult(j) ==
    IF pc \in {"flask_analyze_multiple_boxes", "flask_calculate_all_statistics"}
    THEN ret[j]
    ELSE IF "error" \in DOMAIN ret THEN ret ELSE ret[boxes[j].id]

\* what the single-box analysis returns for b on the same dataset and years
SingleResult(b) ==
    CASE pc = "flask_analyze_multiple_boxes" ->
             Flask_analyze_box(b, hurricanes, start_year, end_year)
      [] pc = "flask_calculate_all_statistics" ->
             Flask_eq_calculate_statistics(b, earthquakes, start_year, end_year)
      [] pc = "api_analyze_multiple_boxes" ->
             Api_analyze_box(b, hurricanes, start_year, end_year)
      [] pc = "api_calculate_all_statistics" ->
             Api_eq_calculate_statistics(b, earthquakes, start_year, end_year)

BulkOps ==
    {"flask_analyze_multiple_boxes", "flask_calculate_all_statistics",
     "api_analyze_multiple_boxes", "api_calculate_all_statistics"}

-----------------------------------------------------------------------------
(* The fields of the intersection record (SpecTrack)                          *)

\* the scan has returned a record whose entry is the first in-box point
RecordFromInBoxPoints ==
    /\ ScanDone
    /\ InsidePositions # {}
    /\ ret # <<>>
    /\ ret[1].entry_point = track[FirstInside]

\* the positions after the first in-box point that lie outside the box
OutsideAfterEntry == { k \in DOMAIN track : k > FirstInside /\ k \notin InsidePositions }

FirstOutsideAfterEntry ==
    CHOOSE k \in OutsideAfterEntry : \A m \in OutsideAfterEntry : k <= m

\* C11: in a record produced from in-box track points, exit_point is the
\* first track point after entry that lies outside the box, and it is None
\* exactly when no point after the entry lies outside (the track ends while
\* the storm is still inside).
C11_ExitPointIsFirstPointOutside ==
    RecordFromInBoxPoints =>
        ret[1].exit_point = IF OutsideAfterEntry = {} THEN NoPoint
                            ELSE track[FirstOutsideAfterEntry]

-----------------------------------------------------------------------------
(* SpecSides: tracks of one segment scanned against every valid box          *)

InitSides ==
    InitScan({b \in AllBoxes(NoTrigger) : b.south <= b.north /\ b.west <= b.east},
             SeqUpTo(TrackPoints({[w |-> 100, p |-> 950]}), 2))

SpecSides == InitSides /\ [][NextTrack]_vars

\* every point of the positions ps lies strictly beyond the same side of the box
BeyondOneSide(ps) ==
    \/ \A k \in ps : track[k].latitude > box.north
    \/ \A k \in ps : track[k].latitude < box.south
    \/ \A k \in ps : track[k].longitude > box.east
    \/ \A k \in ps : track[k].longitude < box.west

\* C12: a track that stays strictly beyond one side of a valid box produces
\* no intersection record, and the segment test is false for every segment
\* whose two end points are strictly beyond the same side.
C12_TrackBeyondOneSideMisses ==
    ScanDone =>
        /\ BeyondOneSide(DOMAIN track) => ret = <<>>
        /\ \A k \in 1..(Len(track) - 1) :
              BeyondOneSide({k, k + 1}) =>
                  /\ ~Flask_segment_intersects_box(
                         track[k].latitude, track[k].longitude,
                         track[k + 1].latitude, track[k + 1].longitude, box)
                  /\ ~Api_segment_crosses(track, k, box)

\* a two-point track beyond one side whose end points straddle another
\* side's line has been scanned
C12_Witness ==
    /\ ScanDone
    /\ Len(track) = 2
    /\ BeyondOneSide({1, 2})
    /\ track[1].longitude < box.west
    /\ track[2].longitude > box.west
    /\ ret = <<>>

-----------------------------------------------------------------------------
(* Clip crossings (SpecTrack)                                                 *)

\* the segments (by the position of their first point) that the finished
\* scan's own segment test reports as crossing the box
CrossingSegments ==
    { k \in 1..(Len(track) - 1) :
        IF pc = "flask_done"
        THEN Flask_segment_intersects_box(track[k].latitude, track[k].longitude,
                 track[k + 1].latitude, track[k + 1].longitude, box)
        ELSE Api_segment_crosses(track, k, box) }

FirstCrossing == CHOOSE k \in CrossingSegments : \A m \in CrossingSegments : k <= m

\* the smaller of two pressures when both are known, otherwise the known one
KnownMinPressure(p, q) ==
    IF p # None /\ q # None THEN Min(p, q) ELSE IF p # None THEN p ELSE q

\* C13: for a track with no point inside the box and a segment crossing it,
\* exactly one record is produced, from the first crossing segment:
\* entry_point is the segment's first point, exit_point its second point,
\* max_intensity_in_box the larger wind of the two, and (where the record
\* has a pressure) the pressure is the smaller known pressure of the two.
C13_ClipCrossingRecord ==
    (ScanDone /\ InsidePositions = {} /\ CrossingSegments # {}) =>
        LET p1 == track[FirstCrossing]
            p2 == track[FirstCrossing + 1]
        IN  /\ Len(ret) = 1
            /\ ret[1].entry_point = p1
            /\ ret[1].exit_point = p2
            /\ ret[1].max_intensity_in_box = Max(p1.wind_knots, p2.wind_knots)
            /\ pc = "api_done" =>
                  ret[1].min_pressure_in_box =
                      KnownMinPressure(p1.pressure_mb, p2.pressure_mb)

\* the in-box points of the first excursion: the run of consecutive in-box
\* points that starts with the first in-box point
FirstExcursion ==
    { k \in InsidePositions : \A m \in FirstInside..k : m \in InsidePositions }

\* C14: in a record produced from in-box track points, max_intensity_in_box
\* is the maximum wind_knots over the in-box points of the first excursion:
\* no wind of an outside point or of a later excursion, and no in-box point
\* of the first excursion left out.
C14_MaxIntensityOverFirstExcursion ==
    (ScanDone /\ InsidePositions # {} /\ ret # <<>>) =>
        /\ \E k \in FirstExcursion : ret[1].max_intensity_in_box = track[k].wind_knots
        /\ \A k \in FirstExcursion : ret[1].max_intensity_in_box >= track[k].wind_knots

\* C15: in every intersection record, category_at_crossing is the category
\* of the record's entry_point, not the category of the strongest point
\* inside the box.
C15_CategoryAtCrossingIsEntryCategory ==
    (ScanDone /\ ret # <<>>) =>
        ret[1].category_at_crossing = ret[1].entry_point.category

-----------------------------------------------------------------------------
(* Counts and rates of the statistics (SpecStats)                             *)

\* C16: when the box has no trigger every in-box event qualifies: the
\* qualifying count equals the total count and qualifying_annual_frequency
\* equals annual_frequency, in every statistics result.
C16_NoTriggerAllQualify ==
    (pc \in StatOps /\ trigger.is_none /\ ret.error = "none") =>
        /\ ret.total = InBoxCount
        /\ ret.qualifying = ret.total
        /\ ret.qualifying_annual_frequency = ret.annual_frequency

\* Flask hurricane statistics over a tropical storm and a major hurricane,
\* no trigger, a positive year span
C16_Witness ==
    /\ pc = "flask_calculate_statistics"
    /\ trigger.is_none
    /\ end_year > start_year
    /\ \E j, k \in DOMAIN intersections :
          intersections[j].category_at_crossing # intersections[k].category_at_crossing
    /\ ret.qualifying = Len(intersections)
    /\ ret.qualifying_annual_frequency > 0

\* the in-box events of the finished statistics call that satisfy the trigger
QualifyingCount ==
    IF trigger.is_none THEN InBoxCount
    ELSE IF pc \in HurricaneStatOps
    THEN Cardinality({j \in DOMAIN intersections :
            /\ trigger.min_category # None =>
                  intersections[j].category_at_crossing >= trigger.min_category
            /\ trigger.min_wind_knots # None =>
                  intersections[j].max_intensity_in_box >= trigger.min_wind_knots
            /\ trigger.max_pressure_mb # None =>
                  /\ intersections[j].min_pressure_in_box # None
                  /\ intersections[j].min_pressure_in_box <= trigger.max_pressure_mb})
    ELSE Cardinality({j \in DOMAIN earthquakes :
            /\ \/ pc = "flask_calculate_box_statistics"
               \/ /\ earthquakes[j].latitude \in box.south..box.north
                  /\ earthquakes[j].longitude \in box.west..box.east
            /\ trigger.min_magnitude # None =>
                  earthquakes[j].magnitude >= trigger.min_magnitude
            /\ trigger.max_depth_km # None =>
                  earthquakes[j].depth_km <= trigger.max_depth_km
            /\ trigger.min_depth_km # None =>
                  earthquakes[j].depth_km >= trigger.min_depth_km})

\* rate (in units of 10^-6) is count / years up to half a unit of the third
\* decimal, the coarsest rounding of the outputs
IsRate(rate, count, years) ==
    LET d == rate * years - count * Micro
    IN  d <= 500 * years /\ -d <= 500 * years

\* C17: years_analyzed is end_year - start_year + 1, total and qualifying
\* are the numbers of in-box events and of those satisfying the trigger, and
\* for years_analyzed > 0 annual_frequency is total / years_analyzed and
\* qualifying_annual_frequency is qualifying / years_analyzed, up to the
\* output rounding.
C17_RatesAreCountsPerYear ==
    (pc \in StatOps /\ ret.error = "none") =>
        /\ ret.years_analyzed = end_year - start_year + 1
        /\ ret.total = InBoxCount
        /\ ret.qualifying = QualifyingCount
        /\ ret.years_analyzed > 0 =>
              /\ IsRate(ret.annual_frequency, ret.total, ret.years_analyzed)
              /\ IsRate(ret.qualifying_annual_frequency, ret.qualifying,
                        ret.years_analyzed)

\* FastAPI earthquake statistics over three in-box earthquakes of which one
\* meets the trigger, over two years
C17_Witness ==
    /\ pc = "api_calculate_box_statistics"
    /\ ret.error = "none"
    /\ ret.years_analyzed = 2
    /\ ret.total = 3
    /\ ret.qualifying = 1
    /\ ret.annual_frequency = 1500000
    /\ ret.qualifying_annual_frequency = 500000

-----------------------------------------------------------------------------
(* SpecFind: find_box_intersections over datasets of at most MaxDataset      *)
(* storms, storms without track points included                            *)

\* no point, a stay inside the box "a", a clip crossing of it, a track away
\* from it
FindTracks ==
    {<<>>,
     <<MkPoint(1, 1, 50, None, 0, 8), MkPoint(2, 2, 100, 950, 3, 9)>>,
     <<MkPoint(1, 0, 50, None, 0, 10), MkPoint(2, 3, 50, None, 0, 10)>>,
     <<MkPoint(0, 0, 100, 950, 3, 7), MkPoint(0, 3, 100, 950, 3, 7)>>}

FindStorms == { [storm_id |-> id, track |-> t] : id \in {"s1", "s2"}, t \in FindTracks }

InitFind ==
    /\ pc = "start"
    /\ box \in BulkBoxes(NoTrigger, NoTrigger)
    /\ hurricanes \in SeqUpTo(FindStorms, MaxDataset)
    /\ earthquakes = <<>>
    /\ trigger = NoTrigger
    /\ point = NoPoint
    /\ observed = None
    /\ intersections = <<>>
    /\ NoYears
    /\ track = <<>>
    /\ ScanIdle
    /\ NoBulk
    /\ ret = None
    /\ NoCache
    /\ NoServices

FindFlaskBoxIntersections ==
    Returns("flask_find_box_intersections", Flask_find_box_intersections(hurricanes, box))

FindApiBoxIntersections ==
    Returns("api_find_box_intersections", Api_find_box_intersections(hurricanes, box))

NextFind ==
    \/ FindFlaskBoxIntersections
    \/ FindApiBoxIntersections

SpecFind == InitFind /\ [][NextFind]_vars

FindOps == {"flask_find_box_intersections", "api_find_box_intersections"}

\* C18: find_box_intersections returns without error at most one record per
\* storm: no more records than storms, every record is of a storm of the
\* input, no storm has more records than it occurs in the input with a
\* non-empty track, and so a storm with an empty track produces none.
C18_AtMostOneRecordPerStorm ==
    pc \in FindOps =>
        /\ Len(ret) <= Len(hurricanes)
        /\ \A r \in DOMAIN ret :
              \E j \in DOMAIN hurricanes : hurricanes[j].storm_id = ret[r].storm_id
        /\ \A id \in {"s1", "s2"} :
              Cardinality({r \in DOMAIN ret : ret[r].storm_id = id})
                  <= Cardinality({j \in DOMAIN hurricanes :
                                     /\ hurricanes[j].storm_id = id
                                     /\ hurricanes[j].track # <<>>})

\* a storm with two in-box points and a storm without track points gave
\* exactly one record
C18_Witness ==
    /\ pc \in FindOps
    /\ Len(hurricanes) = 2
    /\ hurricanes[1].track = <<>>
    /\ hurricanes[2].storm_id = "s2"
    /\ Len(ret) = 1
    /\ ret[1].storm_id = "s2"
    /\ ret[1].entry_point # ret[1].exit_point
    /\ ret[1].max_intensity_in_box = 100

-----------------------------------------------------------------------------
(* SpecFrame: the analysis calls made one after another on the same inputs   *)

\* a call is under way
InProgress ==
    {"flask_loop", "flask_break", "api_points", "api_segments",
     "api_hurricane_loop", "api_earthquake_loop"}

\* the finished call's result has been taken and the (singleton) service is
\* called again: the locals of the finished call are gone, the arguments
\* are the caller's
NextCall ==
    /\ pc \notin InProgress \cup {"start"}
    /\ pc' = "start"
    /\ ret' = None
    /\ results' = <<>>
    /\ i' = 0
    /\ entry_point' = NoPoint
    /\ exit_point' = NoPoint
    /\ max_intensity' = 0
    /\ min_pressure' = None
    /\ was_inside' = FALSE
    /\ UNCHANGED inputVars

\* the inputs of SpecStats with lists of at most MaxEvents events
InitFrameStats ==
    /\ pc = "start"
    /\ start_year = 2020
    /\ end_year \in 2018..(2019 + MaxSpan)
    /\ \/ /\ trigger \in StatTriggers
          /\ intersections \in SeqUpTo(StatIxSamples, MaxEvents)
          /\ earthquakes = <<>>
          /\ box = MkBox("b1", 1, 2, 1, 2, trigger)
       \/ /\ trigger \in StatEqTriggers
          /\ earthquakes \in SeqUpTo(StatEqSamples, MaxEvents)
          /\ intersections = <<>>
          /\ box \in {MkBox("b1", 1, 2, 1, 2, trigger), MkBox("b1", 1, 2, 2, 3, trigger)}
    /\ point = NoPoint
    /\ observed = None
    /\ NoTrack
    /\ NoBulk
    /\ ret = None
    /\ NoCache
    /\ NoServices

InitFrame == InitBulk \/ InitFind \/ InitInverted \/ InitFrameStats

NextFrame ==
    \/ NextTrack
    \/ NextFind
    \/ NextStats
    \/ NextBulk
    \/ NextCall

SpecFrame == InitFrame /\ [][NextFrame]_vars

-----------------------------------------------------------------------------
(* TTLCache (apps/api/app/utils/cache.py).  The OrderedDict is the sequence  *)
(* of its entries, first inserted first; a result is a record so that a    *)
(* returned None, a returned value and a raised exception can be told      *)
(* apart.                                                                  *)

CacheKeys == {"a", "b", "c"}

CacheValues == {1, 2}

\* the keys of the OrderedDict c
KeysOf(c) == { c[j].key : j \in DOMAIN c }

\* self._cache[key]
EntryOf(c, k) == c[CHOOSE j \in DOMAIN c : c[j].key = k]

\* del self._cache[key]
Cache_del(c, k) ==
    LET Other(en) == en.key # k
    IN  SelectSeq(c, Other)

\* a get that leaves the entry where it is
Cache_move_to_end_skipped(c, k) == c

\* self._cache.move_to_end(key)
Cache_move_to_end(c, k) == Cache_del(c, k) \o <<EntryOf(c, k)>>

\* the history of uses after key k was used
UsedNow(k) ==
    LET Other(x) == x # k
    IN  SelectSeq(used, Other) \o <<k>>

Returned(v) == [error |-> "none", value |-> v]

Raised(e) == [error |-> e, value |-> None]

analysisVars == <<box, point, trigger, observed, earthquakes, intersections,
                  start_year, end_year, track, hurricanes, boxes, scanVars, results,
                  threads, serviceVars>>

\* what the call op returns for the value v that get found (None: nothing)
GetResult(op, v) == IF op = "contains" THEN Returned(v # None) ELSE Returned(v)

\* a get that still returns an entry exactly ttl seconds old
Cache_is_fresh_inclusive(timestamp) == now - timestamp <= ttl

\* "time.time() - timestamp < self._ttl"
Cache_is_fresh(timestamp) == now - timestamp < ttl

\* the history of stored values after a set() stored entry
StoredNow(entry) ==
    { e \in last_set : e.key # entry.key } \cup {entry}

\* TTLCache.get(k), called as get or through the membership test
GetEffect(op, k) ==
    /\ call' = [op |-> op, key |-> k, value |-> None]
    /\ IF k \in KeysOf(cache)
       THEN IF Cache_is_fresh(EntryOf(cache, k).timestamp)
            THEN /\ cache' = Cache_move_to_end(cache, k)
                 /\ ret' = GetResult(op, EntryOf(cache, k).value)
                 /\ used' = UsedNow(k)
            ELSE /\ cache' = Cache_del(cache, k)
                 /\ ret' = GetResult(op, None)
                 /\ UNCHANGED used
       ELSE /\ ret' = GetResult(op, None)
            /\ UNCHANGED <<cache, used>>
    /\ UNCHANGED <<max_size, ttl, now, last_set, analysisVars>>

\* TTLCache.get
CacheGet ==
    \E k \in CacheKeys :
        /\ pc' = "cache_get"
        /\ GetEffect("get", k)

\* TTLCache.__contains__: "self.get(key) is not None"
CacheContains ==
    \E k \in CacheKeys :
        /\ pc' = "cache_contains"
        /\ GetEffect("contains", k)

\* TTLCache.set; popitem on an empty OrderedDict raises KeyError
CacheSet ==
    \E k \in CacheKeys, v \in CacheValues :
        LET entry == [key |-> k, value |-> v, timestamp |-> now]
        IN  /\ pc' = "cache_set"
            /\ call' = [op |-> "set", key |-> k, value |-> v]
            /\ IF k \in KeysOf(cache)
               THEN /\ cache' = Cache_del(cache, k) \o <<entry>>
                    /\ ret' = Returned(None)
                    /\ used' = UsedNow(k)
                    /\ last_set' = StoredNow(entry)
               ELSE IF Len(cache) >= max_size
               THEN IF cache = <<>>
                    THEN /\ ret' = Raised("KeyError")
                         /\ UNCHANGED <<cache, used, last_set>>
                    ELSE /\ cache' = Tail(cache) \o <<entry>>
                         /\ ret' = Returned(None)
                         /\ used' = UsedNow(k)
                         /\ last_set' = StoredNow(entry)
               ELSE /\ cache' = cache \o <<entry>>
                    /\ ret' = Returned(None)
                    /\ used' = UsedNow(k)
                    /\ last_set' = StoredNow(entry)
            /\ UNCHANGED <<max_size, ttl, now, analysisVars>>

\* TTLCache.clear
CacheClear ==
    /\ pc' = "cache_clear"
    /\ call' = [op |-> "clear", key |-> "", value |-> None]
    /\ cache' = <<>>
    /\ used' = <<>>
    /\ last_set' = {}
    /\ ret' = Returned(None)
    /\ UNCHANGED <<max_size, ttl, now, analysisVars>>

\* TTLCache.__len__
CacheLen ==
    /\ pc' = "cache_len"
    /\ call' = [op |-> "len", key |-> "", value |-> None]
    /\ ret' = Returned(Len(cache))
    /\ UNCHANGED <<cache, used, last_set, max_size, ttl, now, analysisVars>>

\* time passes
Tick ==
    /\ now < MaxTime
    /\ now' = now + 1
    /\ UNCHANGED <<pc, ret, cache, used, last_set, call, max_size, ttl, analysisVars>>

NextCache ==
    \/ CacheGet
    \/ CacheContains
    \/ CacheSet
    \/ CacheClear
    \/ CacheLen
    \/ Tick

\* TTLCache.__init__
InitCache ==
    /\ pc = "start"
    /\ cache = <<>>
    /\ max_size \in 0..MaxCacheSize
    /\ ttl \in 0..MaxTtl
    /\ now = 0
    /\ call = [op |-> "init", key |-> "", value |-> None]
    /\ used = <<>>
    /\ last_set = {}
    /\ threads = <<>>
    /\ ret = Returned(None)
    /\ box = MkBox("b1", 0, 0, 0, 0, NoTrigger)
    /\ trigger = NoTrigger
    /\ point = NoPoint
    /\ observed = None
    /\ earthquakes = <<>>
    /\ intersections = <<>>
    /\ NoYears
    /\ NoTrack
    /\ NoBulk
    /\ NoServices

SpecCache == InitCache /\ [][NextCache]_vars

\* the key of the cache whose last use (set or successful get) is the oldest
LeastRecentlyUsed ==
    used[CHOOSE j \in DOMAIN used :
            /\ used[j] \in KeysOf(cache)
            /\ \A m \in 1..(j - 1) : used[m] \notin KeysOf(cache)]

\* C20: a set() that stores a new key while the cache holds max_size entries
\* removes exactly one entry, the least recently used one (a set and a
\* successful get make their key the most recently used); a set() on a key
\* already present replaces its value and removes nothing; a set() into a
\* cache with room removes nothing.
C20_SetEvictsLeastRecentlyUsed ==
    [][(call'.op = "set" /\ ret'.error = "none") =>
          /\ EntryOf(cache', call'.key).value = call'.value
          /\ KeysOf(cache') =
                IF call'.key \in KeysOf(cache) \/ Len(cache) < max_size
                THEN KeysOf(cache) \cup {call'.key}
                ELSE (KeysOf(cache) \ {LeastRecentlyUsed}) \cup {call'.key}
          /\ Len(cache') = Cardinality(KeysOf(cache'))]_vars

\* a full cache of two entries has stored a third key and dropped the key
\* used least recently
C20_Witness ==
    /\ call.op = "set"
    /\ ret.error = "none"
    /\ max_size = 2
    /\ Len(cache) = 2
    /\ Len(used) = 3
    /\ used[1] \notin KeysOf(cache)
    /\ cache[1].timestamp < cache[2].timestamp
    /\ cache[1].key = used[2]
    /\ cache[2].key = used[3]

\* the last set() of key k that stored a value since the last clear()
LastSetOf(k) == { e \in last_set : e.key = k }

\* C21 as stated: get(k) returns None and removes the entry when the last
\* set() of k was ttl seconds or more ago, returns None when k was never set
\* or was removed by clear(), and returns the value of the last set() of k
\* in every other case.
C21_GetReturnsLastSetUnlessStale ==
    [][(call'.op = "get" /\ now' = now) =>
          LET k == call'.key
          IN  IF LastSetOf(k) = {}
              THEN ret' = Returned(None)
              ELSE \A e \in LastSetOf(k) :
                      IF now - e.timestamp >= ttl
                      THEN /\ ret' = Returned(None)
                           /\ k \notin KeysOf(cache')
                      ELSE ret' = Returned(e.value)]_vars

\* C21 with eviction taken into account: get(k) returns None and removes the
\* entry when the last set() of k was ttl seconds or more ago, returns None
\* when k was never set or was removed by clear(), returns the value of the
\* last set() of k when the cache still holds the entry, and returns None
\* when the entry is gone (evicted by a set() on a full cache); a get removes
\* no entry of another key and keeps the entry it returns.
C21_GetReturnsLastSetWhileHeld ==
    [][(call'.op = "get" /\ now' = now) =>
          LET k == call'.key
          IN  /\ KeysOf(cache) \ {k} \subseteq KeysOf(cache')
              /\ IF LastSetOf(k) = {}
                 THEN ret' = Returned(None)
                 ELSE \A e \in LastSetOf(k) :
                         IF now - e.timestamp >= ttl
                         THEN /\ ret' = Returned(None)
                              /\ k \notin KeysOf(cache')
                         ELSE IF k \in KeysOf(cache)
                         THEN /\ ret' = Returned(e.value)
                              /\ k \in KeysOf(cache')
                         ELSE ret' = Returned(None)]_vars

\* a get found its key expired after a positive ttl and the entry is gone,
\* in a cache that never had to evict
C21_Witness ==
    /\ call.op = "get"
    /\ ret = Returned(None)
    /\ ttl > 0
    /\ Cardinality(last_set) <= max_size
    /\ call.key \notin KeysOf(cache)
    /\ \E e \in LastSetOf(call.key) : now - e.timestamp >= ttl

\* C30: after any sequence of set, get and clear calls the cache holds at
\* most max_size entries and no call has raised, for every max_size >= 0
\* (0 included), and the cache is empty right after clear().
C30_SizeBoundedAndNoCallRaises ==
    /\ Len(cache) <= max_size
    /\ ret.error = "none"
    /\ call.op = "clear" => Len(cache) = 0

-----------------------------------------------------------------------------
(* TTLCache called from several threads.  The class takes no lock, so a    *)
(* thread may be suspended between any two operations on the OrderedDict;  *)
(* one operation on the OrderedDict (a membership test, a read, a del, a   *)
(* move_to_end, a popitem, a store, a clear, a len) is one step.           *)

Threads == 1..MaxThreads

\* the keys and the value the threads use
ThreadKeys == {"a", "b"}

ThreadValues == {1}

\* a thread between two calls, with the result of its last call
Idle(result) ==
    [pc |-> "idle", op |-> "none", key |-> "", value |-> None,
     found |-> None, timestamp |-> None, ret |-> result]

\* thread t moves on to the record r
Thread(t, r) ==
    /\ threads' = [threads EXCEPT ![t] = r]
    /\ UNCHANGED <<pc, ret, call, used, last_set, max_size, ttl, now,
                   box, point, trigger, observed, earthquakes, intersections,
                   start_year, end_year, track, hurricanes, boxes, scanVars,
                   results, serviceVars>>

\* what get returns to the caller of op: __contains__ is "get(key) is not None"
ThreadReturn(op, v) == Idle(GetResult(op, v))

\* "self._cache[key] = (value, time.time())": a key already present keeps
\* its place in the OrderedDict
Cache_setitem(c, entry) ==
    IF entry.key \in KeysOf(c)
    THEN [j \in DOMAIN c |-> IF c[j].key = entry.key THEN entry ELSE c[j]]
    ELSE c \o <<entry>>

\* get line 19, "if key in self._cache", entered from get or __contains__
ThreadGetContains(t) ==
    \E op \in {"get", "contains"}, k \in ThreadKeys :
        /\ threads[t].pc = "idle"
        /\ UNCHANGED cache
        /\ Thread(t, IF k \in KeysOf(cache)
                     THEN [Idle(Returned(None)) EXCEPT !.pc = "get_20", !.op = op, !.key = k]
                     ELSE ThreadReturn(op, None))

\* get line 20, "value, timestamp = self._cache[key]"
ThreadGetRead(t) ==
    /\ threads[t].pc = "get_20"
    /\ UNCHANGED cache
    /\ Thread(t, IF threads[t].key \in KeysOf(cache)
                 THEN [threads[t] EXCEPT !.pc = "get_21",
                          !.found = EntryOf(cache, threads[t].key).value,
                          !.timestamp = EntryOf(cache, threads[t].key).timestamp]
                 ELSE Idle(Raised("KeyError")))

\* get line 21, "if time.time() - timestamp < self._ttl"
ThreadGetFresh(t) ==
    /\ threads[t].pc = "get_21"
    /\ UNCHANGED cache
    /\ Thread(t, [threads[t] EXCEPT
                     !.pc = IF Cache_is_fresh(threads[t].timestamp)
                            THEN "get_22" ELSE "get_25"])

\* get lines 22-23, "self._cache.move_to_end(key)" and "return value"
ThreadGetMoveToEnd(t) ==
    /\ threads[t].pc = "get_22"
    /\ IF threads[t].key \in KeysOf(cache)
       THEN /\ cache' = Cache_move_to_end(cache, threads[t].key)
            /\ Thread(t, ThreadReturn(threads[t].op, threads[t].found))
       ELSE /\ UNCHANGED cache
            /\ Thread(t, Idle(Raised("KeyError")))

\* get lines 25-26, "del self._cache[key]" and "return None"
ThreadGetDel(t) ==
    /\ threads[t].pc = "get_25"
    /\ IF threads[t].key \in KeysOf(cache)
       THEN /\ cache' = Cache_del(cache, threads[t].key)
            /\ Thread(t, ThreadReturn(threads[t].op, None))
       ELSE /\ UNCHANGED cache
            /\ Thread(t, Idle(Raised("KeyError")))

\* set line 30, "if key in self._cache"
ThreadSetContains(t) ==
    \E k \in ThreadKeys, v \in ThreadValues :
        /\ threads[t].pc = "idle"
        /\ UNCHANGED cache
        /\ Thread(t, [Idle(Returned(None)) EXCEPT
                         !.pc = IF k \in KeysOf(cache) THEN "set_31" ELSE "set_32",
                         !.op = "set", !.key = k, !.value = v])

\* set line 31, "del self._cache[key]"
ThreadSetDel(t) ==
    /\ threads[t].pc = "set_31"
    /\ IF threads[t].key \in KeysOf(cache)
       THEN /\ cache' = Cache_del(cache, threads[t].key)
            /\ Thread(t, [threads[t] EXCEPT !.pc = "set_34"])
       ELSE /\ UNCHANGED cache
            /\ Thread(t, Idle(Raised("KeyError")))

\* set line 32, "elif len(self._cache) >= self._max_size"
ThreadSetLen(t) ==
    /\ threads[t].pc = "set_32"
    /\ UNCHANGED cache
    /\ Thread(t, [threads[t] EXCEPT
                     !.pc = IF Len(cache) >= max_size THEN "set_33" ELSE "set_34"])

\* set line 33, "self._cache.popitem(last=False)"
ThreadSetPopitem(t) ==
    /\ threads[t].pc = "set_33"
    /\ IF cache # <<>>
       THEN /\ cache' = Tail(cache)
            /\ Thread(t, [threads[t] EXCEPT !.pc = "set_34"])
       ELSE /\ UNCHANGED cache
            /\ Thread(t, Idle(Raised("KeyError")))

\* set line 34, "self._cache[key] = (value, time.time())"
ThreadSetStore(t) ==
    /\ threads[t].pc = "set_34"
    /\ cache' = Cache_setitem(cache, [key |-> threads[t].key,
                                      value |-> threads[t].value,
                                      timestamp |-> now])
    /\ Thread(t, Idle(Returned(None)))

\* clear line 38, "self._cache.clear()"
ThreadClear(t) ==
    /\ threads[t].pc = "idle"
    /\ cache' = <<>>
    /\ Thread(t, [Idle(Returned(None)) EXCEPT !.op = "clear"])

\* __len__ line 44, "return len(self._cache)"
ThreadLen(t) ==
    /\ threads[t].pc = "idle"
    /\ UNCHANGED cache
    /\ Thread(t, [Idle(Returned(Len(cache))) EXCEPT !.op = "len"])

\* time passes while the threads run
ThreadTick ==
    /\ now < MaxTime
    /\ now' = now + 1
    /\ UNCHANGED <<pc, ret, cache, used, last_set, call, max_size, ttl, analysisVars>>

NextThreads ==
    \/ \E t \in Threads : ThreadGetContains(t)
    \/ \E t \in Threads : ThreadGetRead(t)
    \/ \E t \in Threads : ThreadGetFresh(t)
    \/ \E t \in Threads : ThreadGetMoveToEnd(t)
    \/ \E t \in Threads : ThreadGetDel(t)
    \/ \E t \in Threads : ThreadSetContains(t)
    \/ \E t \in Threads : ThreadSetDel(t)
    \/ \E t \in Threads : ThreadSetLen(t)
    \/ \E t \in Threads : ThreadSetPopitem(t)
    \/ \E t \in Threads : ThreadSetStore(t)
    \/ \E t \in Threads : ThreadClear(t)
    \/ \E t \in Threads : ThreadLen(t)
    \/ ThreadTick

\* one cache with max_size >= 1, where no call of a single thread raises,
\* shared by the threads
InitThreads ==
    /\ pc = "threads"
    /\ cache = <<>>
    /\ max_size \in 1..MaxCacheSize
    /\ ttl \in 0..MaxTtl
    /\ now = 0
    /\ call = <<>>
    /\ used = <<>>
    /\ last_set = {}
    /\ threads = [t \in Threads |-> Idle(Returned(None))]
    /\ ret = None
    /\ box = MkBox("b1", 0, 0, 0, 0, NoTrigger)
    /\ trigger = NoTrigger
    /\ point = NoPoint
    /\ observed = None
    /\ earthquakes = <<>>
    /\ intersections = <<>>
    /\ NoYears
    /\ NoTrack
    /\ NoBulk
    /\ NoServices

SpecThreads == InitThreads /\ [][NextThreads]_vars

\* C22: under every interleaving of get, set, clear, membership and len
\* calls of several threads no call raises and the cache never holds more
\* than max_size entries.
C22_ThreadSafe ==
    /\ \A t \in Threads : threads[t].ret.error = "none"
    /\ Len(cache) <= max_size

-----------------------------------------------------------------------------
(* Email alert subscriptions: SubscriptionService of the Flask application *)
(* (app/services/subscription_service.py) and of the FastAPI application   *)
(* (apps/api/app/services/subscription_service.py) over a subscriptions    *)
(* table.  A token of secrets.token_urlsafe(32) is a number never produced *)
(* before; None is the integer None.  A new row takes the column defaults  *)
(* of apps/api/app/models/subscription.py (is_active True,                 *)
(* emails_sent_today 0, last_email_date NULL).                             *)

\* the addresses that subscribe; two of them differ in case only
SubEmails == {"ann@x.org", "Ann@x.org", "bob@x.org"}

\* str.lower
Lower(email) == IF email = "Ann@x.org" THEN "ann@x.org" ELSE email

\* Subscription(...) as create_subscription builds it
Subscription(id, email, verification_token, unsubscribe_token, max_emails) ==
    [id |-> id, email |-> email, is_verified |-> FALSE, is_active |-> TRUE,
     verification_token |-> verification_token,
     unsubscribe_token |-> unsubscribe_token,
     max_emails_per_day |-> max_emails, emails_sent_today |-> 0,
     last_email_date |-> None]

\* a lookup by address that finds no row
RowsByEmail_finding_nothing(email) == {}

\* the ids of the rows a select(...).where(...) finds
RowsByEmail(email) == { j \in DOMAIN subs : subs[j].email = email }

RowsByUnsubscribeToken(token) == { j \in DOMAIN subs : subs[j].unsubscribe_token = token }

\* the number of alert emails sent to the subscription id on the day
MailCount(id, day) == Cardinality({ m \in mail : m.id = id /\ m.day = day })

\* a call of the subscription service ends: the table, the tokens used and
\* the result; scalar_one_or_none over several rows raises
SubsCall(name, args, rows, new_subs, new_tokens, result) ==
    /\ pc' = name
    /\ call' = args
    /\ IF Cardinality(rows) > 1
       THEN /\ ret' = Raised("MultipleResultsFound")
            /\ UNCHANGED <<subs, tokens>>
       ELSE /\ ret' = result
            /\ subs' = new_subs
            /\ tokens' = new_tokens
    /\ UNCHANGED <<service, today, mail, box, point, trigger, observed,
                   earthquakes, intersections, start_year, end_year, track,
                   hurricanes, boxes, scanVars, results, cache, max_size, ttl,
                   now, used, last_set, threads, monitorVars, wsVars>>

\* the row found, with the fields f set to the values of the record f
RowUpdate(rows, f) ==
    [j \in DOMAIN subs |->
        IF j \in rows
        THEN [g \in DOMAIN subs[j] |-> IF g \in DOMAIN f THEN f[g] ELSE subs[j][g]]
        ELSE subs[j]]

\* Flask create_subscription: (message, False) for an address already in the
\* table, else a new row and (verification_token, True)
FlaskCreateSubscription ==
    \E email \in SubEmails, max_emails \in 1..MaxEmailsPerDay :
        LET existing == RowsByEmail(email)
        IN  /\ service = "flask"
            /\ tokens + 2 <= MaxTokens
            /\ SubsCall("flask_create_subscription",
                        [op |-> "create_subscription", email |-> email],
                        existing,
                        IF existing # {} THEN subs
                        ELSE Append(subs, Subscription(Len(subs) + 1, email,
                                                       tokens + 1, tokens + 2, max_emails)),
                        IF existing # {} THEN tokens ELSE tokens + 2,
                        IF existing # {}
                        THEN [created |-> FALSE, verification_token |-> None]
                        ELSE [created |-> TRUE, verification_token |-> tokens + 1])

\* FastAPI create_subscription: returns (subscription, message,
\* needs_verification_email)
ApiCreateSubscription ==
    \E payload_email \in SubEmails, max_emails \in 1..MaxEmailsPerDay :
        LET email == Lower(payload_email)
            existing == RowsByEmail(email)
            row == subs[CHOOSE j \in existing : TRUE]
            args == [op |-> "create_subscription", email |-> payload_email]
            resend == [subscription |-> row.id, needs_verification_email |-> TRUE]
        IN  /\ service = "api"
            /\ tokens + 2 <= MaxTokens
            /\ IF existing # {}
               THEN IF Cardinality(existing) = 1 /\ row.is_verified /\ row.is_active
                    THEN SubsCall("api_create_subscription", args, existing, subs, tokens,
                                  [subscription |-> None,
                                   needs_verification_email |-> FALSE])
                    ELSE IF Cardinality(existing) = 1 /\ ~row.is_verified
                    THEN SubsCall("api_create_subscription", args, existing,
                                  RowUpdate(existing, [verification_token |-> tokens + 1]),
                                  tokens + 1, resend)
                    ELSE SubsCall("api_create_subscription", args, existing,
                                  RowUpdate(existing, [is_active |-> TRUE,
                                                       verification_token |-> tokens + 1,
                                                       is_verified |-> FALSE]),
                                  tokens + 1, resend)
               ELSE SubsCall("api_create_subscription", args, existing,
                             Append(subs, Subscription(Len(subs) + 1, email,
                                                       tokens + 1, tokens + 2, max_emails)),
                             tokens + 2,
                             [subscription |-> Len(subs) + 1,
                              needs_verification_email |-> TRUE])

\* a verify_subscription that verifies a row without clearing its token
Verified_keeping_token == [is_verified |-> TRUE]

\* "subscription.is_verified = True; subscription.verification_token = None"
Verified == [is_verified |-> TRUE, verification_token |-> None]

\* Flask verify_subscription: the row is selected by its token alone
FlaskVerifySubscription ==
    \E token \in 1..MaxTokens :
        LET rows == { j \in DOMAIN subs : subs[j].verification_token = token }
        IN  /\ service = "flask"
            /\ SubsCall("flask_verify_subscription",
                        [op |-> "verify_subscription", token |-> token],
                        rows, RowUpdate(rows, Verified), tokens,
                        [message |-> "uniform"])

\* FastAPI verify_subscription: the row is selected by its token among the
\* rows that are not verified
ApiVerifySubscription ==
    \E token \in 1..MaxTokens :
        LET rows == { j \in DOMAIN subs : /\ subs[j].verification_token = token
                                          /\ ~subs[j].is_verified }
        IN  /\ service = "api"
            /\ SubsCall("api_verify_subscription",
                        [op |-> "verify_subscription", token |-> token],
                        rows, RowUpdate(rows, Verified), tokens,
                        [subscription |-> IF rows = {} THEN None
                                          ELSE CHOOSE j \in rows : TRUE])

\* Flask unsubscribe
FlaskUnsubscribe ==
    \E token \in 1..MaxTokens :
        /\ service = "flask"
        /\ SubsCall("flask_unsubscribe", [op |-> "unsubscribe", token |-> token],
                    RowsByUnsubscribeToken(token),
                    RowUpdate(RowsByUnsubscribeToken(token), [is_active |-> FALSE]),
                    tokens, [message |-> "uniform"])

\* FastAPI unsubscribe
ApiUnsubscribe ==
    \E token \in 1..MaxTokens :
        LET rows == RowsByUnsubscribeToken(token)
        IN  /\ service = "api"
            /\ SubsCall("api_unsubscribe", [op |-> "unsubscribe", token |-> token],
                        rows, RowUpdate(rows, [is_active |-> FALSE]), tokens,
                        [subscription |-> IF rows = {} THEN None
                                          ELSE CHOOSE j \in rows : TRUE])

\* Flask resubscribe: by the unsubscribe token
FlaskResubscribe ==
    \E token \in 1..MaxTokens :
        /\ service = "flask"
        /\ SubsCall("flask_resubscribe", [op |-> "resubscribe", token |-> token],
                    RowsByUnsubscribeToken(token),
                    RowUpdate(RowsByUnsubscribeToken(token), [is_active |-> TRUE]),
                    tokens, [message |-> "uniform"])

\* FastAPI resubscribe: by the address
ApiResubscribe ==
    \E email \in SubEmails :
        LET rows == RowsByEmail(Lower(email))
        IN  /\ service = "api"
            /\ SubsCall("api_resubscribe", [op |-> "resubscribe", email |-> email],
                        rows, RowUpdate(rows, [is_active |-> TRUE]), tokens,
                        [subscription |-> IF rows = {} THEN None
                                          ELSE CHOOSE j \in rows : TRUE])

\* Flask increment_email_count: the counter restarts at 1 when the last
\* email was not sent today
Flask_increment_email_count(row) ==
    [row EXCEPT !.emails_sent_today =
                    IF row.last_email_date = None \/ row.last_email_date # today
                    THEN 1 ELSE row.emails_sent_today + 1,
                !.last_email_date = today]

\* FastAPI increment_email_count
Api_increment_email_count(row) ==
    [row EXCEPT !.emails_sent_today = row.emails_sent_today + 1]

\* get_active_subscribers
ActiveSubscribers == { j \in DOMAIN subs : subs[j].is_verified /\ subs[j].is_active }

\* the rate-limit check of both notification loops
UnderLimit(row) == row.emails_sent_today < row.max_emails_per_day

\* the table and the emails sent after the alerts went to the subscribers sent
Notified(name, matching, delivered, sent, Counted) ==
    /\ pc' = name
    /\ call' = [op |-> "notify", matching |-> matching, delivered |-> delivered]
    /\ subs' = [j \in DOMAIN subs |-> IF j \in sent THEN Counted[j] ELSE subs[j]]
    /\ mail' = mail \cup { [id |-> j, day |-> today, n |-> MailCount(j, today) + 1] :
                              j \in sent }
    /\ ret' = None
    /\ UNCHANGED <<service, today, tokens, box, point, trigger, observed,
                   earthquakes, intersections, start_year, end_year, track,
                   hurricanes, boxes, scanVars, results, cache, max_size, ttl,
                   now, used, last_set, threads, monitorVars, wsVars>>

\* Flask _notify_subscribers for one new event: matching are the subscribers
\* whose preferences the event matches, delivered those for whom
\* send_alert_email returns True
FlaskNotifySubscribers ==
    \E matching \in SUBSET DOMAIN subs, delivered \in SUBSET DOMAIN subs :
        /\ service = "flask"
        /\ delivered \subseteq matching
        /\ Notified("flask_notify_subscribers", matching, delivered,
                    { j \in ActiveSubscribers \cap delivered : UnderLimit(subs[j]) },
                    [j \in DOMAIN subs |-> Flask_increment_email_count(subs[j])])

\* FastAPI _send_email_alerts for the new events of one cycle: matching are
\* the subscribers with a matching event, delivered those for whom
\* send_alert_email does not raise
ApiSendEmailAlerts ==
    \E matching \in SUBSET DOMAIN subs, delivered \in SUBSET DOMAIN subs :
        /\ service = "api"
        /\ delivered \subseteq matching
        /\ Notified("api_send_email_alerts", matching, delivered,
                    { j \in ActiveSubscribers \cap delivered : UnderLimit(subs[j]) },
                    [j \in DOMAIN subs |-> Api_increment_email_count(subs[j])])

\* midnight (UTC) passes
NextDay ==
    /\ today < MaxDay
    /\ today' = today + 1
    /\ pc' = "next_day"
    /\ UNCHANGED <<subs, service, tokens, mail, ret, call, box, point, trigger,
                   observed, earthquakes, intersections, start_year, end_year,
                   track, hurricanes, boxes, scanVars, results, cache, max_size,
                   ttl, now, used, last_set, threads, monitorVars, wsVars>>

NextSubs ==
    \/ FlaskCreateSubscription
    \/ ApiCreateSubscription
    \/ FlaskVerifySubscription
    \/ ApiVerifySubscription
    \/ FlaskUnsubscribe
    \/ ApiUnsubscribe
    \/ FlaskResubscribe
    \/ ApiResubscribe
    \/ FlaskNotifySubscribers
    \/ ApiSendEmailAlerts
    \/ NextDay

\* an empty table, served by one of the two applications
InitSubs ==
    /\ pc = "start"
    /\ subs = <<>>
    /\ service \in {"flask", "api"}
    /\ tokens = 0
    /\ today = 0
    /\ mail = {}
    /\ ret = None
    /\ box = MkBox("b1", 0, 0, 0, 0, NoTrigger)
    /\ trigger = NoTrigger
    /\ point = NoPoint
    /\ observed = None
    /\ earthquakes = <<>>
    /\ intersections = <<>>
    /\ NoYears
    /\ NoTrack
    /\ NoBulk
    /\ NoCache
    /\ NoMonitor
    /\ NoWs

SpecSubs == InitSubs /\ [][NextSubs]_vars

\* the rows that are not verified and carry the token
UnverifiedWith(token) ==
    { j \in DOMAIN subs : subs[j].verification_token = token /\ ~subs[j].is_verified }

\* C23: verify_subscription with the token of an unverified subscription
\* marks that subscription verified and clears its token, changing no other
\* row; with a token that matches no unverified subscription it changes no
\* row; and in every state reached a verified subscription has no
\* verification token.
C23_VerificationTokenWorksOnce ==
    [][/\ pc' \in {"flask_verify_subscription", "api_verify_subscription"} =>
            /\ DOMAIN subs' = DOMAIN subs
            /\ \A j \in DOMAIN subs :
                  IF j \in UnverifiedWith(call'.token)
                  THEN subs'[j] = [subs[j] EXCEPT !.is_verified = TRUE,
                                                   !.verification_token = None]
                  ELSE subs'[j] = subs[j]
       /\ \A j \in DOMAIN subs' :
              subs'[j].is_verified => subs'[j].verification_token = None]_vars

\* the FastAPI service has verified a subscription with its token
C23_Witness ==
    /\ pc = "api_verify_subscription"
    /\ ret.subscription # None
    /\ subs[ret.subscription].is_verified
    /\ subs[ret.subscription].verification_token = None
    /\ call.token <= tokens

\* the two addresses are one mailbox written in different case
SameAddress(a, b) == a = b \/ {a, b} = {"ann@x.org", "Ann@x.org"}

\* C24: after any sequence of create_subscription, verify, unsubscribe and
\* resubscribe calls no two rows have the same address (in the FastAPI
\* service, which lower-cases it, not even up to case), and a
\* create_subscription for an address whose subscription is verified and
\* active adds no row, changes no row and reports that no verification
\* email is to be sent.
C24_NoDuplicateSubscriptions ==
    [][/\ \A j, k \in DOMAIN subs' :
              /\ subs'[j].email = subs'[k].email => j = k
              /\ (service = "api" /\ SameAddress(subs'[j].email, subs'[k].email)) => j = k
       /\ pc' \in {"flask_create_subscription", "api_create_subscription"} =>
              \A j \in DOMAIN subs :
                  (/\ subs[j].is_verified
                   /\ subs[j].is_active
                   /\ IF service = "api"
                      THEN SameAddress(subs[j].email, call'.email)
                      ELSE subs[j].email = call'.email)
                  => /\ subs' = subs
                     /\ IF service = "api"
                        THEN ret'.needs_verification_email = FALSE
                        ELSE ret'.created = FALSE]_vars

\* the FastAPI service was asked to subscribe an address, written in upper
\* case, whose subscription is verified and active
C24_Witness ==
    /\ pc = "api_create_subscription"
    /\ call.email = "Ann@x.org"
    /\ ret.subscription = None
    /\ \E j \in DOMAIN subs :
          subs[j].email = "ann@x.org" /\ subs[j].is_verified /\ subs[j].is_active

\* C25: a subscriber is never sent more than max_emails_per_day alert
\* emails on one calendar day, and the limit is a daily one: an active,
\* verified subscriber who has not been emailed today is emailed for a
\* matching event whose email can be delivered, whatever was sent on
\* earlier days.
C25_EmailLimitIsDaily ==
    [][/\ \A j \in DOMAIN subs' :
              \A day \in 0..MaxDay :
                  Cardinality({ m \in mail' : m.id = j /\ m.day = day })
                      <= subs'[j].max_emails_per_day
       /\ pc' \in {"flask_notify_subscribers", "api_send_email_alerts"} =>
              \A j \in ActiveSubscribers \cap call'.delivered :
                  MailCount(j, today) = 0 =>
                      [id |-> j, day |-> today, n |-> 1] \in mail']_vars

-----------------------------------------------------------------------------
(* The histograms of the statistics, over events of every depth bin and    *)
(* with timestamps that the FastAPI services cannot parse (month None).     *)

\* crossings of category 3, 0 and 0, the last without a usable timestamp
HistIxSamples ==
    {MkIx("s1", MkPoint(1, 1, 100, 950, 3, 9), NoPoint, 100, 950, 3),
     MkIx("s2", MkPoint(2, 1, 50, None, 0, 12), NoPoint, 50, None, 0),
     MkIx("s3", MkPoint(2, 2, 40, None, 0, None), NoPoint, 40, None, 0)}

\* earthquakes at (1, 1) in the depth bins of both services, one of them
\* without a usable event_time, and one outside every box at (3, 3)
HistEqSamples ==
    {MkEq(1, 1, 6, 5, 1), MkEq(1, 1, 4, 60, 12), MkEq(1, 1, 4, 150, None),
     MkEq(1, 1, 7, 400, 1), MkEq(3, 3, 5, 20, 6)}

\* the Flask services read timestamp.month of every event
HasMonths ==
    /\ \A j \in DOMAIN intersections : intersections[j].entry_point.month # None
    /\ \A j \in DOMAIN earthquakes : earthquakes[j].month # None

InitHist ==
    /\ pc = "start"
    /\ start_year = 2020
    /\ end_year \in 2019..(2019 + MaxSpan)
    /\ \/ /\ trigger \in StatTriggers
          /\ intersections \in SeqUpTo(HistIxSamples, MaxEvents)
          /\ earthquakes = <<>>
       \/ /\ trigger \in StatEqTriggers
          /\ earthquakes \in SeqUpTo(HistEqSamples, MaxEvents)
          /\ intersections = <<>>
    /\ box = MkBox("b1", 1, 2, 1, 2, trigger)
    /\ point = NoPoint
    /\ observed = None
    /\ NoTrack
    /\ NoBulk
    /\ ret = None
    /\ NoCache
    /\ NoServices

NextHist ==
    \/ HasMonths /\ StatsFlaskHurricane
    \/ StatsApiHurricane
    \/ HasMonths /\ StatsFlaskEarthquake
    \/ StatsApiEarthquake

SpecHist == InitHist /\ [][NextHist]_vars

RECURSIVE SumOver(_, _)
\* the sum of the counts of the bins D of the histogram f
SumOver(f, D) ==
    IF D = {} THEN 0
    ELSE LET k == CHOOSE x \in D : TRUE
         IN  f[k] + SumOver(f, D \ {k})

HistogramSum(f) == SumOver(f, DOMAIN f)

\* C26: in every statistics result the total is the number of in-box events,
\* the category (or magnitude) distribution and the depth distribution each
\* sum to the total with no empty or negative bin, the monthly distribution
\* has only keys in 1..12 and sums to at most the total, and the qualifying
\* count is at most the total.
C26_HistogramsAgreeWithCounts ==
    (pc # "start" /\ ret.error = "none") =>
        /\ ret.total = InBoxCount
        /\ ret.qualifying <= ret.total
        /\ DOMAIN ret.monthly_distribution \subseteq 1..12
        /\ \A m \in DOMAIN ret.monthly_distribution : ret.monthly_distribution[m] >= 0
        /\ HistogramSum(ret.monthly_distribution) <= ret.total
        /\ IF pc \in {"flask_calculate_statistics", "api_calculate_statistics"}
           THEN /\ HistogramSum(ret.category_distribution) = ret.total
                /\ \A k \in DOMAIN ret.category_distribution :
                      ret.category_distribution[k] > 0
           ELSE /\ HistogramSum(ret.magnitude_distribution) = ret.total
                /\ HistogramSum(ret.depth_distribution) = ret.total
                /\ \A k \in DOMAIN ret.magnitude_distribution :
                      ret.magnitude_distribution[k] > 0
                /\ \A k \in DOMAIN ret.depth_distribution :
                      ret.depth_distribution[k] > 0

\* the FastAPI service has binned three earthquakes, two of them in one
\* magnitude bin and one without a month
C26_Witness ==
    /\ pc = "api_calculate_box_statistics"
    /\ ret.error = "none"
    /\ ret.total = 3
    /\ Cardinality(DOMAIN ret.magnitude_distribution) = 2
    /\ Cardinality(DOMAIN ret.depth_distribution) = 3
    /\ HistogramSum(ret.monthly_distribution) = 2
    /\ ret.qualifying < ret.total

-----------------------------------------------------------------------------
(* The real-time monitor: RealtimeService of the Flask application          *)
(* (app/services/realtime_service.py) and of the FastAPI application        *)
(* (apps/api/app/services/realtime_service.py).  A polling cycle fetches a  *)
(* feed, a list of event ids, and reports the ids it has not seen.          *)

\* the analysis and the cache, which the services leave alone
staticVars == <<box, point, trigger, observed, earthquakes, intersections,
                start_year, end_year, track, hurricanes, boxes, scanVars, results,
                cacheVars>>

\* the ids of a feed; "" is a feature without an id
EventIds == {"", "e1", "e2", "e3"}

Feeds == SeqUpTo(EventIds, MaxFeed)

\* "id in self._seen_..."
SeenHas(ids, id) == \E j \in DOMAIN ids : ids[j] = id

RECURSIVE Api_check_loop(_, _, _, _)
\* the loop of the FastAPI _check_earthquakes and _check_wildfires over the
\* feed: a new id is added to the seen dict and to new_events, and the dict
\* is cut back to its last cap ids, oldest first
Api_check_loop(feed, seen_ids, new_events, cap) ==
    IF feed = <<>> THEN [seen |-> seen_ids, new_events |-> new_events]
    ELSE IF Head(feed) # "" /\ ~SeenHas(seen_ids, Head(feed))
    THEN LET added == Append(seen_ids, Head(feed))
             excess == IF Len(added) > cap THEN Len(added) - cap ELSE 0
         IN  Api_check_loop(Tail(feed), SubSeq(added, excess + 1, Len(added)),
                            Append(new_events, Head(feed)), cap)
    ELSE Api_check_loop(Tail(feed), seen_ids, new_events, cap)

RECURSIVE Flask_check_loop(_, _, _)
\* the loop of the Flask _check_earthquakes: a new id is added to the seen
\* set and emitted
Flask_check_loop(feed, seen_ids, new_events) ==
    IF feed = <<>> THEN [seen |-> seen_ids, new_events |-> new_events]
    ELSE IF Head(feed) # "" /\ ~SeenHas(seen_ids, Head(feed))
    THEN Flask_check_loop(Tail(feed), Append(seen_ids, Head(feed)),
                          Append(new_events, Head(feed)))
    ELSE Flask_check_loop(Tail(feed), seen_ids, new_events)

\* the ids of the list
IdsOf(events) == { events[j] : j \in DOMAIN events }

\* a polling cycle of one source ends with the result r of its loop
Checked(name, source, r) ==
    /\ pc' = name
    /\ seen' = [seen EXCEPT ![source] = r.seen]
    /\ emitted' = [emitted EXCEPT ![source] = @ \cup IdsOf(r.new_events)]
    /\ ret' = r.new_events
    /\ UNCHANGED <<running, task, loops, subsVars, wsVars, staticVars>>

\* FastAPI RealtimeService._check_earthquakes
ApiCheckEarthquakes ==
    \E feed \in Feeds :
        /\ service = "api"
        /\ Checked("api_check_earthquakes", "earthquakes",
                   Api_check_loop(feed, seen.earthquakes, <<>>, SeenEarthquakesCap))

\* FastAPI RealtimeService._check_wildfires: "for fire in fires[:50]"
ApiCheckWildfires ==
    \E feed \in Feeds :
        /\ service = "api"
        /\ Checked("api_check_wildfires", "wildfires",
                   Api_check_loop(SubSeq(feed, 1, Min(Len(feed), WildfireFeedLimit)),
                                  seen.wildfires, <<>>, SeenWildfiresCap))

\* Flask RealtimeService._check_earthquakes
FlaskCheckEarthquakes ==
    \E feed \in Feeds :
        /\ service = "flask"
        /\ Checked("flask_check_earthquakes", "earthquakes",
                   Flask_check_loop(feed, seen.earthquakes, <<>>))

NextMonitor ==
    \/ ApiCheckEarthquakes
    \/ ApiCheckWildfires
    \/ FlaskCheckEarthquakes

\* RealtimeService.__init__ of one of the two applications
InitMonitor ==
    /\ pc = "start"
    /\ service \in {"flask", "api"}
    /\ seen = [earthquakes |-> <<>>, wildfires |-> <<>>]
    /\ emitted = [earthquakes |-> {}, wildfires |-> {}]
    /\ running = FALSE
    /\ task = 0
    /\ loops = <<>>
    /\ subs = <<>>
    /\ tokens = 0
    /\ today = 0
    /\ mail = {}
    /\ ret = <<>>
    /\ box = MkBox("b1", 0, 0, 0, 0, NoTrigger)
    /\ trigger = NoTrigger
    /\ point = NoPoint
    /\ observed = None
    /\ earthquakes = <<>>
    /\ intersections = <<>>
    /\ NoYears
    /\ NoTrack
    /\ NoBulk
    /\ NoCache
    /\ NoWs

SpecMonitor == InitMonitor /\ [][NextMonitor]_vars

\* C27: an event id reported as new in one polling cycle is not reported
\* again by a later polling cycle of the same source, whatever feeds are
\* fetched.
C27_EachEventReportedOnce ==
    [][/\ pc' \in {"api_check_earthquakes", "flask_check_earthquakes"} =>
              IdsOf(ret') \cap emitted.earthquakes = {}
       /\ pc' = "api_check_wildfires" =>
              IdsOf(ret') \cap emitted.wildfires = {}]_vars

-----------------------------------------------------------------------------
(* The life cycle of the monitor: start(), stop() and _monitor_loop.        *)
(* loops[n] is where the n-th loop created by start() stands: "created"     *)
(* before its first test of self._running, "polling" in the body of the     *)
(* while loop, "sleeping" in the 60-second sleep, "cancelled" once          *)
(* Task.cancel() was called on it, "ended" after it.  task is the index of  *)
(* self._thread or self._task, 0 for None.                                  *)

\* start() of either service: "if self._running: return", else a new loop
Started(name) ==
    /\ pc' = name
    /\ IF running
       THEN UNCHANGED <<running, task, loops>>
       ELSE /\ Len(loops) < MaxLoops
            /\ running' = TRUE
            /\ loops' = Append(loops, "created")
            /\ task' = Len(loops) + 1
    /\ UNCHANGED <<ret, seen, emitted, subsVars, wsVars, staticVars>>

\* Flask RealtimeService.start
FlaskStart == service = "flask" /\ Started("flask_start")

\* FastAPI RealtimeService.start
ApiStart == service = "api" /\ Started("api_start")

\* Flask RealtimeService.stop: only the flag is cleared
FlaskStop ==
    /\ service = "flask"
    /\ pc' = "flask_stop"
    /\ running' = FALSE
    /\ UNCHANGED <<task, loops, ret, seen, emitted, subsVars, wsVars, staticVars>>

\* FastAPI RealtimeService.stop: the flag is cleared and the task cancelled;
\* cancel() of a task that is done changes nothing
ApiStop ==
    /\ service = "api"
    /\ pc' = "api_stop"
    /\ running' = FALSE
    /\ loops' = IF task # 0 /\ loops[task] # "ended"
                THEN [loops EXCEPT ![task] = "cancelled"]
                ELSE loops
    /\ UNCHANGED <<task, ret, seen, emitted, subsVars, wsVars, staticVars>>

\* a step of the n-th _monitor_loop: the test "while self._running" on entry
\* and after the sleep, and the end of the body, where the sleep begins
MonitorLoop(name, n) ==
    /\ pc' = name
    /\ \/ /\ loops[n] \in {"created", "sleeping"}
          /\ loops' = [loops EXCEPT ![n] = IF running THEN "polling" ELSE "ended"]
       \/ /\ loops[n] = "polling"
          /\ loops' = [loops EXCEPT ![n] = "sleeping"]
    /\ UNCHANGED <<running, task, ret, seen, emitted, subsVars, wsVars, staticVars>>

\* Flask RealtimeService._monitor_loop, run by a thread
FlaskMonitorLoop ==
    \E n \in DOMAIN loops : service = "flask" /\ MonitorLoop("flask_monitor_loop", n)

\* FastAPI RealtimeService._monitor_loop, run by a task
ApiMonitorLoop ==
    \E n \in DOMAIN loops : service = "api" /\ MonitorLoop("api_monitor_loop", n)

\* the cancelled task is resumed with CancelledError, which neither
\* "except Exception" of the loop catches, and ends
ApiTaskCancelled ==
    \E n \in DOMAIN loops :
        /\ service = "api"
        /\ loops[n] = "cancelled"
        /\ pc' = "api_task_cancelled"
        /\ loops' = [loops EXCEPT ![n] = "ended"]
        /\ UNCHANGED <<running, task, ret, seen, emitted, subsVars, wsVars, staticVars>>

NextLifecycle ==
    \/ FlaskStart
    \/ FlaskStop
    \/ FlaskMonitorLoop
    \/ ApiStart
    \/ ApiStop
    \/ ApiMonitorLoop
    \/ ApiTaskCancelled

SpecLifecycle == InitMonitor /\ [][NextLifecycle]_vars

\* the loops that are in the body of "while self._running"
Polling == { n \in DOMAIN loops : loops[n] = "polling" }

\* C28: after any sequence of start() and stop() calls at most one
\* monitoring loop is polling.
C28_AtMostOneLoopPolling == Cardinality(Polling) <= 1

-----------------------------------------------------------------------------
(* The WebSocket ConnectionManager and websocket_endpoint of                *)
(* apps/api/app/routers/notifications.py.  The coroutines run on one event  *)
(* loop: a step of the model is the code between two awaits.                *)
(* endpoints[w] is where the endpoint coroutine of client w stands: "new"   *)
(* before the call, "accepting" in "await websocket.accept()", "open" in    *)
(* the receive loop, "closed" after its return.                             *)

\* _MAX_CONNECTIONS_PER_IP
MAX_CONNECTIONS_PER_IP == 5

\* the default of settings.MAX_WS_CONNECTIONS
MAX_WS_CONNECTIONS == 1000

WebSockets == 1 .. MaxSockets

Ips == {"ip1", "ip2"}

\* ConnectionManager._get_client_ip: the first clients share one address
Ip(w) == IF w <= MAX_CONNECTIONS_PER_IP + 1 THEN "ip1" ELSE "ip2"

\* ConnectionManager.total_connections
total_connections == Cardinality(manager.active_connections)

\* ConnectionManager.can_accept
can_accept(w) ==
    IF total_connections >= manager.MAX_WS_CONNECTIONS THEN FALSE
    ELSE IF manager.connections_per_ip[Ip(w)] >= MAX_CONNECTIONS_PER_IP THEN FALSE
    ELSE TRUE

\* the manager after the registration of w in ConnectionManager.connect
connect(m, w) ==
    [m EXCEPT !.active_connections = @ \cup {w},
              !.connections_per_ip[Ip(w)] = @ + 1,
              !.connection_ip_map = @ \cup {w}]

\* the manager after ConnectionManager.disconnect of w; connections_per_ip
\* holds 0 for an address without a key
disconnect(m, w) ==
    [m EXCEPT !.active_connections = @ \ {w},
              !.connections_per_ip[Ip(w)] =
                  IF w \in m.connection_ip_map /\ @ > 0 THEN @ - 1 ELSE @,
              !.connection_ip_map = @ \ {w}]

RECURSIVE disconnect_all(_, _)
\* "for conn in disconnected: self.disconnect(conn)"
disconnect_all(m, conns) ==
    IF conns = {} THEN m
    ELSE LET w == CHOOSE c \in conns : TRUE
         IN  disconnect_all(disconnect(m, w), conns \ {w})

\* a step of a coroutine of the router leaves the rest alone
WsStep ==
    /\ pc' = "notifications"
    /\ UNCHANGED <<ret, monitorVars, subsVars, staticVars>>

\* websocket_endpoint up to its first await: can_accept, then either the
\* close of the refused client or the call of connect, which awaits accept()
EndpointCanAccept ==
    \E w \in WebSockets :
        /\ endpoints[w] = "new"
        /\ \A v \in 1 .. w - 1 : Ip(v) = Ip(w) => endpoints[v] # "new"
        /\ endpoints' = [endpoints EXCEPT ![w] =
                            IF can_accept(w) THEN "accepting" ELSE "closed"]
        /\ UNCHANGED <<manager, broadcaster>>
        /\ WsStep

\* ConnectionManager.connect after "await websocket.accept()": the
\* connection is registered; a client that is gone makes accept() raise
EndpointAccepted ==
    \E w \in WebSockets, accepted \in BOOLEAN :
        /\ endpoints[w] = "accepting"
        /\ IF accepted
           THEN /\ manager' = connect(manager, w)
                /\ endpoints' = [endpoints EXCEPT ![w] = "open"]
           ELSE /\ UNCHANGED manager
                /\ endpoints' = [endpoints EXCEPT ![w] = "closed"]
        /\ UNCHANGED broadcaster
        /\ WsStep

\* ConnectionManager.send_personal_message whose send raises
EndpointSendFailed ==
    \E w \in WebSockets :
        /\ endpoints[w] = "open"
        /\ manager' = disconnect(manager, w)
        /\ UNCHANGED <<endpoints, broadcaster>>
        /\ WsStep

\* "except WebSocketDisconnect: manager.disconnect(websocket)"
EndpointDisconnect ==
    \E w \in WebSockets :
        /\ endpoints[w] = "open"
        /\ manager' = disconnect(manager, w)
        /\ endpoints' = [endpoints EXCEPT ![w] = "closed"]
        /\ UNCHANGED broadcaster
        /\ WsStep

\* the broadcaster outside ConnectionManager.broadcast
NoBroadcast == [at |-> "idle", used |-> 0, last |-> 0, disconnected |-> {}]

\* the connections the set iterator has not passed; the set is iterated in
\* the order of its hash table, here the order of the clients' numbers, and
\* b.last is the connection yielded last
Remaining(b) == { w \in manager.active_connections : w > b.last }

\* the connection the set iterator yields next
NextConnection(b) == CHOOSE w \in Remaining(b) : \A v \in Remaining(b) : w <= v

\* the next step of "for connection in self.active_connections" of a
\* broadcast b: the set iterator raises RuntimeError when the size of the set is no longer the size it
\* had when the loop began; after the last connection the broken ones are
\* disconnected; otherwise a connection is taken and its send awaited
BroadcastIterate(b) ==
    IF total_connections # b.used
    THEN /\ broadcaster' = [NoBroadcast EXCEPT !.at = "failed"]
         /\ UNCHANGED manager
    ELSE IF Remaining(b) = {}
    THEN /\ broadcaster' = NoBroadcast
         /\ manager' = disconnect_all(manager, b.disconnected)
    ELSE /\ broadcaster' = [b EXCEPT !.at = "sending", !.last = NextConnection(b)]
         /\ UNCHANGED manager

\* ConnectionManager.broadcast up to its first await
Broadcast ==
    /\ broadcaster.at \in {"idle", "failed"}
    /\ BroadcastIterate([NoBroadcast EXCEPT !.used = total_connections])
    /\ UNCHANGED endpoints
    /\ WsStep

\* ConnectionManager.broadcast from the end of one send to the next await:
\* a send that raised puts its connection on the disconnected list
BroadcastSent ==
    \E sent \in BOOLEAN :
        /\ broadcaster.at = "sending"
        /\ sent \/ Cardinality(broadcaster.disconnected) < MaxFailedSends
        /\ BroadcastIterate(
               IF sent THEN broadcaster
               ELSE [broadcaster EXCEPT !.disconnected = @ \cup {broadcaster.last}])
        /\ UNCHANGED endpoints
        /\ WsStep

NextWs ==
    \/ EndpointCanAccept
    \/ EndpointAccepted
    \/ EndpointSendFailed
    \/ EndpointDisconnect
    \/ Broadcast
    \/ BroadcastSent

\* ConnectionManager.__init__ under one value of MAX_WS_CONNECTIONS
InitWs ==
    /\ pc = "start"
    /\ manager \in { [active_connections |-> {},
                      connections_per_ip |-> [a \in Ips |-> 0],
                      connection_ip_map |-> {},
                      MAX_WS_CONNECTIONS |-> limit] :
                     limit \in {MaxWsSetting, MAX_WS_CONNECTIONS} }
    /\ endpoints = [w \in WebSockets |-> "new"]
    /\ broadcaster = NoBroadcast
    /\ ret = <<>>
    /\ box = MkBox("b1", 0, 0, 0, 0, NoTrigger)
    /\ trigger = NoTrigger
    /\ point = NoPoint
    /\ observed = None
    /\ earthquakes = <<>>
    /\ intersections = <<>>
    /\ NoYears
    /\ NoTrack
    /\ NoBulk
    /\ NoCache
    /\ NoSubs
    /\ NoMonitor

SpecWs == InitWs /\ [][NextWs]_vars

\* the active connections of the address
ActiveFrom(a) == { w \in manager.active_connections : Ip(w) = a }

\* C29: under every interleaving of connection attempts, disconnects, failed
\* sends and broadcasts, connections_per_ip[ip] is the number of active
\* connections of ip, no ip has more than 5 active connections, the total
\* is at most MAX_WS_CONNECTIONS, and no broadcast fails.
C29_ManagerLimitsHoldAndBroadcastSucceeds ==
    /\ \A a \in Ips : manager.connections_per_ip[a] = Cardinality(ActiveFrom(a))
    /\ \A a \in Ips : Cardinality(ActiveFrom(a)) <= MAX_CONNECTIONS_PER_IP
    /\ total_connections <= manager.MAX_WS_CONNECTIONS
    /\ broadcaster.at # "failed"

====
